---- MODULE Spec2Model ----
(***************************************************************************)
(* AirIQ front-end: the seeded sensor scatterer (generateLandSensors,      *)
(* buildWorldSensorPoints), its linear-congruential generator, the land    *)
(* test and the live-tick simulator, as state machines.                    *)
(*                                                                         *)
(* Number representation.                                                  *)
(*   - A 32-bit unsigned value is a record [hi, lo] of two 16-bit limbs    *)
(*     (value = hi * 2^16 + lo), because the generator state does not fit  *)
(*     a signed 32-bit integer.                                            *)
(*   - random() returns state / 2^32; the model carries the state itself   *)
(*     as the numerator of that fraction.                                  *)
(*   - Unrounded coordinates are kept in "fine" units of 10^-5 degree,     *)
(*     stored (rounded) coordinates in units of 10^-4 degree, temperature  *)
(*     in tenths, intensity in hundredths.                                 *)
(***************************************************************************)
EXTENDS Integers, Sequences, FiniteSets, TLC

VARIABLES
    fn,             \* which generator runs: "land" (generateLandSensors) or "world"
    countryFeatures,\* argument of generateLandSensors
    seed,           \* argument of generateLandSensors
    clock,          \* the wall clock read by new Date()
    invocation,     \* 1 for the first call, 2 for a repeated call with the same arguments
    pc,             \* position in the running function
    featureIndex,   \* const featureIndex
    random,         \* state of the closure returned by createSeededRandom
    now,            \* const now
    regionIdx,      \* index of the REGIONS.forEach / WORLD_SENSOR_CLUSTERS.forEach iteration
    count,          \* let count (land) / let index (world)
    attempts,       \* let attempts
    fallbackIndex,  \* let fallbackIndex
    sensors,        \* const sensors / const points
    previous,       \* the list returned by the first call, kept for comparison
    rngCalls,       \* number of calls made on a seeded generator (generator-only runs)
    liveSensors,    \* Landing's sensors state, evolved by tickSensors
    ticked          \* whether tickSensors has run at least once

\* LandingSensorMap (the city map component)
VARIABLES
    mapPc,          \* "off", "mount" (before the first render), "render", "idle"
    mapSensors,     \* the sensors prop
    baseViewport,   \* const baseViewport (useMemo)
    viewport,       \* the viewport state
    selectedSensorId, \* the selectedSensorId prop, set through onSelectSensor
    markers,        \* projectMarker's result for each sensor of the last render
    mapEvent        \* the last handler that ran: "none", "select", "reset"

\* WorldSensorBackground (the simple equirectangular projection)
VARIABLES
    canvasPc,       \* "off", "call" (toCanvasPosition about to run), "done"
    canvasLat,      \* argument lat, in hundredths of a degree
    canvasLng,      \* argument lng, in hundredths of a degree
    canvasPosition  \* the returned { x, y }, in hundredths of a pixel

\* AuthProvider, App and SignInModal (the mock sign-in)
VARIABLES
    isAuthenticated, \* AuthProvider's isAuthenticated state
    authStorage,    \* whether localStorage holds airiq_auth = "1"
    email,          \* SignInModal's email state, a sequence of characters
    password,       \* SignInModal's password state, a sequence of characters
    errorMessage,   \* SignInModal's errorMessage state
    isSignInOpen,   \* App's isSignInOpen state
    postLoginPath,  \* App's postLoginPath state
    pathname,       \* App's pathname state
    loginCall,      \* the last call of login: its arguments and what it returned
    history,        \* window.history: the entries of the current document
    historyIndex,   \* the current entry; window.location.pathname is history[historyIndex]
    appPc,          \* "off", "render", "effects", "idle", "crashed" (render threw)
    content,        \* what the last render put on the page
    guardDeps,      \* isAuthenticated at the last run of RequireAuth's effect, or "unmounted"
    pathDeps,       \* pathname at the last run of App's /signin effect, or "unset"
    openedBy,       \* the button that last opened the modal: "Sign in", "Go to Dashboard"
    dashboardCancelled \* a modal opened by "Go to Dashboard" was closed without signing in

\* Landing and PublicLanding (the timers that drive the live tick)
VARIABLES
    livePc,         \* "off", "mounting" (before the effect runs), "mounted", "unmounted"
    liveKind,       \* "timeout" (Landing) or "interval" (PublicLanding)
    timers,         \* the timers pending in the browser: records [id, delay]
    timerId,        \* the effect's timerId / intervalId variable (0: not assigned)
    timerCallbacks, \* how many times a timer callback has run
    liveSelectedSensorId, \* the page's selectedSensorId state; << >> stands for null
    selectionEffectPending, \* Landing's selection effect is due: one of its dependencies changed
    panelClosed     \* the sensor panel's Close button has been used

\* forEachPosition and isPointOnLand called on their own
VARIABLES
    geoPc,          \* "off", "call" (the function is about to run), "done"
    geoCoordinates, \* argument coordinates of forEachPosition
    geoCalls,       \* the values the callback was invoked with, in order
    geoIndex,       \* argument featureIndex of isPointOnLand
    geoPoint,       \* arguments lng and lat of isPointOnLand, in fine units
    geoTested,      \* the entries of featureIndex handed to geoContains, in order
    geoResult       \* what isPointOnLand returned

genVars == <<fn, countryFeatures, seed, clock, invocation, pc, featureIndex, random, now,
             regionIdx, count, attempts, fallbackIndex, sensors, previous>>
rngVars == <<rngCalls>>
tickVars == <<liveSensors, ticked>>
mapVars == <<mapPc, mapSensors, baseViewport, viewport, selectedSensorId, markers,
             mapEvent>>
canvasVars == <<canvasPc, canvasLat, canvasLng, canvasPosition>>
authVars == <<isAuthenticated, authStorage, email, password, errorMessage, isSignInOpen,
              postLoginPath, pathname, loginCall, history, historyIndex, appPc, content,
              guardDeps, pathDeps, openedBy, dashboardCancelled>>
liveVars == <<livePc, liveKind, timers, timerId, timerCallbacks, liveSelectedSensorId,
              selectionEffectPending, panelClosed>>
geoVars == <<geoPc, geoCoordinates, geoCalls, geoIndex, geoPoint, geoTested, geoResult>>
uiVars == <<mapVars, canvasVars, authVars, liveVars, geoVars>>
notMapVars == <<genVars, rngVars, tickVars, canvasVars, authVars, liveVars, geoVars>>
notCanvasVars == <<genVars, rngVars, tickVars, mapVars, authVars, liveVars, geoVars>>
notAuthVars == <<genVars, rngVars, tickVars, mapVars, canvasVars, liveVars, geoVars>>
notLiveVars == <<genVars, rngVars, mapVars, canvasVars, authVars, geoVars>>
notGeoVars == <<genVars, rngVars, tickVars, mapVars, canvasVars, authVars, liveVars>>
vars == <<fn, countryFeatures, seed, clock, invocation, pc, featureIndex, random, now,
          regionIdx, count, attempts, fallbackIndex, sensors, previous, rngCalls,
          liveSensors, ticked, uiVars>>

(***************************************************************************)
(* Model bounds.                                                           *)
(***************************************************************************)
\* how many entries of REGIONS / WORLD_SENSOR_CLUSTERS the model runs
NumRegions == 2
\* cap on a region's count
MaxCount == 2
\* calls made on a generator in the generator-only runs
MaxCalls == 40

Min(a, b) == IF a < b THEN a ELSE b
Max(a, b) == IF a > b THEN a ELSE b

(***************************************************************************)
(* 32-bit arithmetic on limbs.                                             *)
(***************************************************************************)
Limb == 2 ^ 16

\* floor((s * k + half * 2^31) / 2^32) for a 32-bit s and 0 <= k < 2^26:
\* floor(r * k) for half = 0 and Math.round(r * k) for half = 1, r = s / 2^32.
MulShift(s, k, half) ==
    LET k1 == k \div 8192
        k0 == k % 8192
        c  == (k1 * s.lo + (k0 * s.lo) \div 8192) \div 8 + half * 32768
    IN  (k1 * s.hi + (k0 * s.hi + c) \div 8192) \div 8

(***************************************************************************)
(* createSeededRandom                                                      *)
(***************************************************************************)
LcgMultiplier == 1664525
LcgIncrement == 1013904223

\* let state = seed >>> 0
createSeededRandom(s) ==
    [hi |-> (s \div Limb) % Limb, lo |-> s % Limb]

\* state = (state * 1664525 + 1013904223) >>> 0
LcgNextNoIncrement(s) ==
    LET t == s.lo * (LcgMultiplier % Limb)
        u == s.hi * (LcgMultiplier % Limb) + s.lo * (LcgMultiplier \div Limb) + (t \div Limb)
    IN  [hi |-> u % Limb, lo |-> t % Limb]
LcgNext(s) ==
    LET t == s.lo * (LcgMultiplier % Limb) + (LcgIncrement % Limb)
        u == s.hi * (LcgMultiplier % Limb) + s.lo * (LcgMultiplier \div Limb)
             + (LcgIncrement \div Limb) + (t \div Limb)
    IN  [hi |-> u % Limb, lo |-> t % Limb]

\* the state after n further calls
RECURSIVE Draw(_, _)
Draw(s, n) == IF n = 0 THEN s ELSE Draw(LcgNext(s), n - 1)


(***************************************************************************)
(* round, clamp, randomInRange                                             *)
(***************************************************************************)
\* round(value, 4) of a coordinate: Math.round(value * 10^4) / 10^4, from fine units
\* (10^-5 degree) to stored units (10^-4 degree); Math.round rounds half up.
round(fine) == (fine + 5) \div 10

\* one degree in fine units
Fine == 10 * (10 ^ 4)

clampLowerOnly(value, min, max) == Max(min, value)
clamp(value, min, max) == Min(max, Max(min, value))

\* min + random() * (max - min), s the generator state of that call, min and max in
\* whole degrees, the result in fine units (the fraction below 10^-5 degree dropped)
randomInRange(s, min, max) == min * Fine + MulShift(s, (max - min) * Fine, 0)

(***************************************************************************)
(* JavaScript values of the GeoJSON input: undefined/null, a number, an    *)
(* array.  A position is the array [lng, lat], in fine units.              *)
(***************************************************************************)
Undef == [t |-> "undef", v |-> 0, items |-> << >>]
Num(n) == [t |-> "num", v |-> n, items |-> << >>]
Arr(xs) == [t |-> "arr", v |-> 0, items |-> xs]
Position(lng, lat) == Arr(<<Num(lng), Num(lat)>>)

RECURSIVE Concat(_, _)
Concat(seqs, i) == IF i > Len(seqs) THEN << >> ELSE seqs[i] \o Concat(seqs, i + 1)

\* forEachPosition(coordinates, callback): the arguments the callback is called with,
\* in call order
RECURSIVE forEachPosition(_)
forEachPosition(coordinates) ==
    IF coordinates.t # "arr" \/ Len(coordinates.items) = 0
    THEN << >>
    ELSE LET first == coordinates.items[1]
         IN  IF first.t = "arr" /\ Len(first.items) > 0 /\ first.items[1].t = "num"
             THEN coordinates.items
             ELSE Concat([i \in 1..Len(coordinates.items) |->
                            forEachPosition(coordinates.items[i])], 1)

Infinity == 2 ^ 30

\* position[0] / position[1] when it is a number; a comparison with anything else is false
HasNumber(position, k) ==
    position.t = "arr" /\ Len(position.items) >= k /\ position.items[k].t = "num"

\* the least / greatest of a set of numbers, or the start value when there is none
Least(values, start) ==
    IF values = {} THEN start ELSE CHOOSE x \in values : \A y \in values : x <= y
Greatest(values, start) ==
    IF values = {} THEN start ELSE CHOOSE x \in values : \A y \in values : x >= y

\* the numbers found at position[k] over the callback's calls
Coordinate(calls, k) ==
    {calls[i].items[k].v : i \in {j \in 1..Len(calls) : HasNumber(calls[j], k)}}

\* geometry?.coordinates
CoordinatesOf(feature) ==
    IF feature.hasGeometry THEN feature.coordinates ELSE Undef

\* the callback of geometryBounds reads position[0]: a TypeError on undefined/null
geometryBoundsThrows(feature) ==
    \E i \in 1..Len(forEachPosition(CoordinatesOf(feature))) :
        forEachPosition(CoordinatesOf(feature))[i].t = "undef"

\* minLng/minLat start at Infinity and maxLng/maxLat at -Infinity; each call of the
\* callback lowers or raises them
geometryBounds(feature) ==
    LET calls == forEachPosition(CoordinatesOf(feature))
    IN  [minLng |-> Least(Coordinate(calls, 1), Infinity),
         maxLng |-> Greatest(Coordinate(calls, 1), -Infinity),
         minLat |-> Least(Coordinate(calls, 2), Infinity),
         maxLat |-> Greatest(Coordinate(calls, 2), -Infinity)]

pointInBounds(bounds, lng, lat) ==
    /\ lng >= bounds.minLng
    /\ lng <= bounds.maxLng
    /\ lat >= bounds.minLat
    /\ lat <= bounds.maxLat

\* features.map(feature => ({feature, bounds: geometryBounds(feature.geometry)}))
buildFeatureIndex(features) ==
    [i \in 1..Len(features) |->
        [feature |-> features[i], bounds |-> geometryBounds(features[i])]]

\* feature.geometry on a null/undefined element, or the bounds callback on a
\* null/undefined position, raises a TypeError
buildFeatureIndexThrows(features) ==
    \E i \in 1..Len(features) :
        \/ ~features[i].isObject
        \/ geometryBoundsThrows(features[i])

\* d3-geo's geoContains(feature, point), a library outside the repository: the model
\* gives each feature the set of boxes (fine units) that the library reports as inside
geoContains(feature, lng, lat) ==
    \E box \in feature.land : pointInBounds(box, lng, lat)

isPointOnLand(index, lng, lat) ==
    \E i \in 1..Len(index) :
        /\ pointInBounds(index[i].bounds, lng, lat)
        /\ geoContains(index[i].feature, lng, lat)


(***************************************************************************)
(* REGIONS, FALLBACK_BOUNDS, WORLD_SENSOR_CLUSTERS                         *)
(***************************************************************************)
Region(key, minLat, maxLat, minLng, maxLng, n) ==
    [key |-> key,
     bounds |-> [minLat |-> minLat, maxLat |-> maxLat, minLng |-> minLng, maxLng |-> maxLng],
     count |-> n]

REGIONS ==
    << Region("na-west", 31, 51, -126, -109, 22),
       Region("na-central", 31, 50, -109, -88, 20),
       Region("na-east", 30, 50, -88, -66, 24),
       Region("sa-north", -6, 13, -81, -58, 12),
       Region("sa-south", -43, -15, -74, -45, 14),
       Region("eu-west", 43, 59, -11, 11, 22),
       Region("eu-central", 45, 57, 7, 28, 18),
       Region("eu-north", 55, 69, 8, 32, 12),
       Region("africa-north", 20, 36, -12, 35, 10),
       Region("africa-sub", -8, 12, -17, 38, 12),
       Region("africa-south", -36, -16, 14, 35, 10),
       Region("middle-east", 15, 37, 35, 60, 12),
       Region("south-asia", 8, 30, 67, 90, 18),
       Region("east-asia", 24, 46, 100, 143, 20),
       Region("se-asia", -9, 20, 95, 126, 16),
       Region("oceania", -46, -11, 112, 178, 14) >>

FALLBACK_BOUNDS == [minLat |-> -52, maxLat |-> 78, minLng |-> -170, maxLng |-> 175]

\* lat and lng in tenths of a degree
Cluster(key, lat, lng, spreadLat, spreadLng, n) ==
    [key |-> key, lat |-> lat, lng |-> lng,
     spreadLat |-> spreadLat, spreadLng |-> spreadLng, count |-> n]

WORLD_SENSOR_CLUSTERS ==
    << Cluster("na-west", 372, -1216, 8, 16, 22),
       Cluster("na-central", 393, -977, 9, 18, 20),
       Cluster("na-east", 404, -762, 8, 12, 24),
       Cluster("sa-north", 49, -741, 10, 12, 12),
       Cluster("sa-south", -237, -469, 11, 13, 14),
       Cluster("eu-west", 502, 15, 7, 11, 22),
       Cluster("eu-central", 514, 132, 7, 10, 18),
       Cluster("eu-north", 598, 192, 7, 12, 12),
       Cluster("africa-north", 315, 124, 8, 12, 10),
       Cluster("africa-sub", 78, 103, 12, 13, 12),
       Cluster("africa-south", -285, 231, 7, 11, 10),
       Cluster("middle-east", 257, 462, 8, 11, 12),
       Cluster("south-asia", 225, 782, 10, 12, 18),
       Cluster("east-asia", 358, 1182, 10, 14, 20),
       Cluster("se-asia", 14, 1061, 11, 12, 16),
       Cluster("oceania", -294, 1422, 9, 15, 14) >>

\* the regions the model runs: the first NumRegions, each count capped at MaxCount
Regions ==
    [i \in 1..Min(NumRegions, Len(REGIONS)) |->
        [REGIONS[i] EXCEPT !.count = Min(@, MaxCount)]]
Clusters ==
    [i \in 1..Min(NumRegions, Len(WORLD_SENSOR_CLUSTERS)) |->
        [WORLD_SENSOR_CLUSTERS[i] EXCEPT !.count = Min(@, MaxCount)]]

RECURSIVE SumCounts(_, _)
SumCounts(regions, i) ==
    IF i > Len(regions) THEN 0 ELSE regions[i].count + SumCounts(regions, i + 1)

\* const maxAttempts = region.count * 900
maxAttemptsOneMore(region) == region.count * 900 + 1
maxAttempts(region) == region.count * 900

\* REGIONS.reduce((sum, region) => sum + region.count, 0)
targetCount == SumCounts(Regions, 1)

\* the fallback loop's bound, targetCount * 1600
maxFallbackAttempts == targetCount * 1600

(***************************************************************************)
(* createSensorPayload                                                     *)
(***************************************************************************)
\* const status = qualityRoll < 0.63 ? "good" : qualityRoll < 0.88 ? "moderate" : "poor"
QualityStatus(s) ==
    IF MulShift(s, 100, 0) < 63 THEN "good"
    ELSE IF MulShift(s, 100, 0) < 88 THEN "moderate"
    ELSE "poor"

\* the pm25 draw, by status
Pm25ForWideGood(status, s) ==
    IF status = "good" THEN 8 + MulShift(s, 10, 1)
    ELSE IF status = "moderate" THEN 18 + MulShift(s, 10, 1)
    ELSE 32 + MulShift(s, 16, 1)
Pm25For(status, s) ==
    IF status = "good" THEN 8 + MulShift(s, 7, 1)
    ELSE IF status = "moderate" THEN 18 + MulShift(s, 10, 1)
    ELSE 32 + MulShift(s, 16, 1)

\* rnd is the generator state when the function is entered; it makes five calls.
\* lat and lng arrive in fine units.
createSensorPayloadPm25First(regionKey, sequence, lat, lng, rnd, nowValue) ==
    LET status == QualityStatus(Draw(rnd, 2))
    IN  [id |-> <<regionKey, sequence>>,
         lat |-> round(lat),
         lng |-> round(lng),
         status |-> status,
         pm25 |-> Pm25For(status, Draw(rnd, 1)),
         temperature |-> 160 + MulShift(Draw(rnd, 3), 160, 1),
         humidity |-> 30 + MulShift(Draw(rnd, 4), 42, 1),
         updatedAt |-> nowValue,
         intensity |-> 75 + MulShift(Draw(rnd, 5), 90, 1)]
createSensorPayloadSwapsLatLng(regionKey, sequence, lat, lng, rnd, nowValue) ==
    LET status == QualityStatus(Draw(rnd, 1))
    IN  [id |-> <<regionKey, sequence>>,
         lat |-> round(lng),
         lng |-> round(lat),
         status |-> status,
         pm25 |-> Pm25For(status, Draw(rnd, 2)),
         temperature |-> 160 + MulShift(Draw(rnd, 3), 160, 1),
         humidity |-> 30 + MulShift(Draw(rnd, 4), 42, 1),
         updatedAt |-> nowValue,
         intensity |-> 75 + MulShift(Draw(rnd, 5), 90, 1)]
createSensorPayloadKeyAsId(regionKey, sequence, lat, lng, rnd, nowValue) ==
    LET status == QualityStatus(Draw(rnd, 1))
    IN  [id |-> <<regionKey, 1>>,
         lat |-> round(lat),
         lng |-> round(lng),
         status |-> status,
         pm25 |-> Pm25For(status, Draw(rnd, 2)),
         temperature |-> 160 + MulShift(Draw(rnd, 3), 160, 1),
         humidity |-> 30 + MulShift(Draw(rnd, 4), 42, 1),
         updatedAt |-> nowValue,
         intensity |-> 75 + MulShift(Draw(rnd, 5), 90, 1)]
createSensorPayload(regionKey, sequence, lat, lng, rnd, nowValue) ==
    LET status == QualityStatus(Draw(rnd, 1))
    IN  [id |-> <<regionKey, sequence>>,
         lat |-> round(lat),
         lng |-> round(lng),
         status |-> status,
         pm25 |-> Pm25For(status, Draw(rnd, 2)),
         temperature |-> 160 + MulShift(Draw(rnd, 3), 160, 1),
         humidity |-> 30 + MulShift(Draw(rnd, 4), 42, 1),
         updatedAt |-> nowValue,
         intensity |-> 75 + MulShift(Draw(rnd, 5), 90, 1)]


(***************************************************************************)
(* Inputs of generateLandSensors: feature lists and seeds.                 *)
(***************************************************************************)
BoxDeg(minLng, maxLng, minLat, maxLat) ==
    [minLng |-> minLng * Fine, maxLng |-> maxLng * Fine,
     minLat |-> minLat * Fine, maxLat |-> maxLat * Fine]

\* a closed ring around a box
Ring(box) ==
    Arr(<< Position(box.minLng, box.minLat), Position(box.maxLng, box.minLat),
           Position(box.maxLng, box.maxLat), Position(box.minLng, box.maxLat),
           Position(box.minLng, box.minLat) >>)
PolygonCoordinates(box) == Arr(<< Ring(box) >>)
MultiPolygonCoordinates(box) == Arr(<< Arr(<< Ring(box) >>) >>)

Feature(name, hasGeometry, coordinates, land) ==
    [isObject |-> TRUE, name |-> name, hasGeometry |-> hasGeometry,
     coordinates |-> coordinates, land |-> land]
\* a null/undefined element of the list
NullFeature ==
    [isObject |-> FALSE, name |-> "", hasGeometry |-> FALSE,
     coordinates |-> Undef, land |-> {}]

FeatureList(items) == [isArray |-> TRUE, items |-> items]
\* countryFeatures === undefined / null
NoFeatureList == [isArray |-> FALSE, items |-> << >>]

NorthAmerica == BoxDeg(-126, -66, 30, 51)
\* a coast 0.00004 degree north of the first point the default seed samples
CoastBox == [BoxDeg(-126, -88, 31, 34) EXCEPT !.maxLat = 3371658]
SouthBox == BoxDeg(-170, 175, -52, 0)
WorldBox == BoxDeg(-180, 180, -90, 90)

LandEverywhere ==
    FeatureList(<< Feature("Laurentia", TRUE, MultiPolygonCoordinates(NorthAmerica),
                           {NorthAmerica}) >>)
LandCoast ==
    FeatureList(<< Feature("Coast", TRUE, PolygonCoordinates(CoastBox), {CoastBox}) >>)
\* land in the first region only
LandWest ==
    FeatureList(<< Feature("West", TRUE, PolygonCoordinates(BoxDeg(-126, -109, 31, 51)),
                           {BoxDeg(-126, -109, 31, 51)}) >>)
LandSouth ==
    FeatureList(<< Feature("Gondwana", TRUE, PolygonCoordinates(SouthBox), {SouthBox}) >>)
\* only Antarctica (filtered out) and features that contribute no position
LandMalformed ==
    FeatureList(<< Feature("Antarctica", TRUE, PolygonCoordinates(WorldBox), {WorldBox}),
                   Feature("NoGeometry", FALSE, Undef, {}),
                   Feature("NoCoordinates", TRUE, Undef, {}),
                   Feature("EmptyCoordinates", TRUE, Arr(<< >>), {}),
                   Feature("EmptyRing", TRUE, Arr(<< Arr(<< >>) >>), {}),
                   Feature("Point", TRUE, Position(-120 * Fine, 40 * Fine), {}) >>)
LandNullElement ==
    FeatureList(<< NullFeature,
                   Feature("Laurentia", TRUE, PolygonCoordinates(NorthAmerica),
                           {NorthAmerica}) >>)
\* a ring whose second entry is null
LandNullPosition ==
    FeatureList(<< Feature("Broken", TRUE,
                           Arr(<< Position(-120 * Fine, 40 * Fine), Undef >>), {}) >>)

DefaultSeed == 20260226
Seeds == {DefaultSeed, 7, -1}

Inputs ==
    ({LandEverywhere, LandCoast, LandSouth, LandNullElement, LandNullPosition} \X Seeds)
    \cup ({NoFeatureList, FeatureList(<< >>), LandMalformed, LandWest} \X {DefaultSeed})

(***************************************************************************)
(* generateLandSensors                                                     *)
(***************************************************************************)
NotAntarctica(feature) == feature.name # "Antarctica"

\* (countryFeatures ?? []).filter(feature => feature?.properties?.name !== "Antarctica")
filteredFeatures ==
    SelectSeq(IF countryFeatures.isArray THEN countryFeatures.items ELSE << >>,
              NotAntarctica)

\* the map component is not mounted
IdleMap ==
    /\ mapPc = "off"
    /\ mapSensors = << >>
    /\ baseViewport = [minLat |-> 0, maxLat |-> 0, minLng |-> 0, maxLng |-> 0]
    /\ viewport = [minLat |-> 0, maxLat |-> 0, minLng |-> 0, maxLng |-> 0]
    /\ selectedSensorId = "none"
    /\ markers = << >>
    /\ mapEvent = "none"

\* toCanvasPosition is not being called
IdleCanvas ==
    /\ canvasPc = "off"
    /\ canvasLat = 0
    /\ canvasLng = 0
    /\ canvasPosition = [x |-> 0, y |-> 0]

\* the application shell is not mounted
NoLoginCall == [made |-> FALSE, email |-> << >>, password |-> << >>, returned |-> FALSE]
IdleAuth ==
    /\ isAuthenticated = FALSE
    /\ authStorage = FALSE
    /\ email = << >>
    /\ password = << >>
    /\ errorMessage = ""
    /\ isSignInOpen = FALSE
    /\ postLoginPath = "null"
    /\ pathname = "off"
    /\ loginCall = NoLoginCall
    /\ history = << >>
    /\ historyIndex = 0
    /\ appPc = "off"
    /\ content = "none"
    /\ guardDeps = "unmounted"
    /\ pathDeps = "unset"
    /\ openedBy = "none"
    /\ dashboardCancelled = FALSE

\* no landing page is mounted
IdleLive ==
    /\ livePc = "off"
    /\ liveKind = "none"
    /\ timers = {}
    /\ timerId = 0
    /\ timerCallbacks = 0
    /\ liveSelectedSensorId = << >>
    /\ selectionEffectPending = FALSE
    /\ panelClosed = FALSE

\* neither forEachPosition nor isPointOnLand is being called on its own
IdleGeo ==
    /\ geoPc = "off"
    /\ geoCoordinates = Undef
    /\ geoCalls = << >>
    /\ geoIndex = << >>
    /\ geoPoint = [lng |-> 0, lat |-> 0]
    /\ geoTested = << >>
    /\ geoResult = FALSE

\* no component of the user interface is mounted
IdleUi == IdleMap /\ IdleCanvas /\ IdleAuth /\ IdleLive /\ IdleGeo

\* no generator call is in progress
IdleGenerator ==
    /\ countryFeatures = NoFeatureList
    /\ seed = 0
    /\ clock = 1
    /\ invocation = 1
    /\ pc = "off"
    /\ featureIndex = << >>
    /\ random = createSeededRandom(0)
    /\ now = 0
    /\ regionIdx = 0
    /\ count = 0
    /\ attempts = 0
    /\ fallbackIndex = 0
    /\ sensors = << >>
    /\ previous = << >>
    /\ rngCalls = 0

\* no generator call is in progress and the live list is empty
IdleGen ==
    /\ IdleGenerator
    /\ liveSensors = << >>
    /\ ticked = FALSE

InitCommon ==
    /\ clock = 1
    /\ invocation = 1
    /\ pc = "call"
    /\ featureIndex = << >>
    /\ random = createSeededRandom(0)
    /\ now = 0
    /\ regionIdx = 0
    /\ count = 0
    /\ attempts = 0
    /\ fallbackIndex = 0
    /\ sensors = << >>
    /\ previous = << >>
    /\ rngCalls = 0
    /\ liveSensors = << >>
    /\ ticked = FALSE
    /\ IdleUi

InitLand ==
    /\ fn = "land"
    /\ \E input \in Inputs : countryFeatures = input[1] /\ seed = input[2]
    /\ InitCommon

InitWorld ==
    /\ fn = "world"
    /\ countryFeatures = NoFeatureList
    /\ seed = DefaultSeed
    /\ InitCommon

\* lines 513-520: filter, index, seed the generator, read the clock
StartSharedGenerator ==
    /\ fn = "land"
    /\ pc = "call"
    /\ IF buildFeatureIndexThrows(filteredFeatures)
       THEN /\ pc' = "threw"
            /\ UNCHANGED <<featureIndex, random, now, regionIdx>>
       ELSE /\ pc' = "region"
            /\ featureIndex' = buildFeatureIndex(filteredFeatures)
            /\ random' = IF invocation = 1 THEN createSeededRandom(seed) ELSE random
            /\ now' = clock
            /\ regionIdx' = 1
    /\ count' = 0
    /\ attempts' = 0
    /\ fallbackIndex' = 0
    /\ sensors' = << >>
    /\ UNCHANGED <<fn, countryFeatures, seed, clock, invocation, previous>>
    /\ UNCHANGED <<rngVars, tickVars, uiVars>>
Start ==
    /\ fn = "land"
    /\ pc = "call"
    /\ IF buildFeatureIndexThrows(filteredFeatures)
       THEN /\ pc' = "threw"
            /\ UNCHANGED <<featureIndex, random, now, regionIdx>>
       ELSE /\ pc' = "region"
            /\ featureIndex' = buildFeatureIndex(filteredFeatures)
            /\ random' = createSeededRandom(seed)
            /\ now' = clock
            /\ regionIdx' = 1
    /\ count' = 0
    /\ attempts' = 0
    /\ fallbackIndex' = 0
    /\ sensors' = << >>
    /\ UNCHANGED <<fn, countryFeatures, seed, clock, invocation, previous>>
    /\ UNCHANGED <<rngVars, tickVars, uiVars>>

\* one iteration of the while loop of lines 527-538
RegionAttempt ==
    /\ pc = "region"
    /\ regionIdx <= Len(Regions)
    /\ count < Regions[regionIdx].count
    /\ attempts < maxAttempts(Regions[regionIdx])
    /\ LET region == Regions[regionIdx]
           lat == randomInRange(Draw(random, 1), region.bounds.minLat, region.bounds.maxLat)
           lng == randomInRange(Draw(random, 2), region.bounds.minLng, region.bounds.maxLng)
       IN  /\ attempts' = attempts + 1
           /\ IF ~isPointOnLand(featureIndex, lng, lat)
              THEN /\ random' = Draw(random, 2)
                   /\ UNCHANGED <<count, sensors>>
              ELSE /\ count' = count + 1
                   /\ sensors' = Append(sensors,
                          createSensorPayload(region.key, count + 1, lat, lng,
                                              Draw(random, 2), now))
                   /\ random' = Draw(random, 7)
    /\ UNCHANGED <<fn, countryFeatures, seed, clock, invocation, pc, featureIndex, now,
                   regionIdx, fallbackIndex, previous>>
    /\ UNCHANGED <<rngVars, tickVars, uiVars>>

\* the while loop ends; forEach moves to the next region, or lines 541-542 run
RegionDone ==
    /\ pc = "region"
    /\ regionIdx <= Len(Regions)
    /\ ~(count < Regions[regionIdx].count /\ attempts < maxAttempts(Regions[regionIdx]))
    /\ IF regionIdx < Len(Regions)
       THEN /\ regionIdx' = regionIdx + 1
            /\ count' = 0
            /\ attempts' = 0
            /\ UNCHANGED pc
       ELSE /\ pc' = "fallback"
            /\ UNCHANGED <<regionIdx, count, attempts>>
    /\ fallbackIndex' = 0
    /\ UNCHANGED <<fn, countryFeatures, seed, clock, invocation, featureIndex, random, now,
                   sensors, previous>>
    /\ UNCHANGED <<rngVars, tickVars, uiVars>>

\* one iteration of the while loop of lines 543-556
FallbackAttemptIgnoresLength ==
    /\ pc = "fallback"
    /\ fallbackIndex < maxFallbackAttempts
    /\ LET lat == randomInRange(Draw(random, 1), FALLBACK_BOUNDS.minLat, FALLBACK_BOUNDS.maxLat)
           lng == randomInRange(Draw(random, 2), FALLBACK_BOUNDS.minLng, FALLBACK_BOUNDS.maxLng)
       IN  /\ fallbackIndex' = fallbackIndex + 1
           /\ IF ~isPointOnLand(featureIndex, lng, lat)
              THEN /\ random' = Draw(random, 2)
                   /\ UNCHANGED sensors
              ELSE /\ sensors' = Append(sensors,
                          createSensorPayload("global", Len(sensors) + 1,
                                              clamp(lat, -58 * Fine, 82 * Fine),
                                              clamp(lng, -176 * Fine, 176 * Fine),
                                              Draw(random, 2), now))
                   /\ random' = Draw(random, 7)
    /\ UNCHANGED <<fn, countryFeatures, seed, clock, invocation, pc, featureIndex, now,
                   regionIdx, count, attempts, previous>>
    /\ UNCHANGED <<rngVars, tickVars, uiVars>>
FallbackAttempt ==
    /\ pc = "fallback"
    /\ Len(sensors) < targetCount
    /\ fallbackIndex < maxFallbackAttempts
    /\ LET lat == randomInRange(Draw(random, 1), FALLBACK_BOUNDS.minLat, FALLBACK_BOUNDS.maxLat)
           lng == randomInRange(Draw(random, 2), FALLBACK_BOUNDS.minLng, FALLBACK_BOUNDS.maxLng)
       IN  /\ fallbackIndex' = fallbackIndex + 1
           /\ IF ~isPointOnLand(featureIndex, lng, lat)
              THEN /\ random' = Draw(random, 2)
                   /\ UNCHANGED sensors
              ELSE /\ sensors' = Append(sensors,
                          createSensorPayload("global", Len(sensors) + 1,
                                              clamp(lat, -58 * Fine, 82 * Fine),
                                              clamp(lng, -176 * Fine, 176 * Fine),
                                              Draw(random, 2), now))
                   /\ random' = Draw(random, 7)
    /\ UNCHANGED <<fn, countryFeatures, seed, clock, invocation, pc, featureIndex, now,
                   regionIdx, count, attempts, previous>>
    /\ UNCHANGED <<rngVars, tickVars, uiVars>>

\* line 558: return sensors
Return ==
    /\ pc = "fallback"
    /\ ~(Len(sensors) < targetCount /\ fallbackIndex < maxFallbackAttempts)
    /\ pc' = "done"
    /\ UNCHANGED <<fn, countryFeatures, seed, clock, invocation, featureIndex, random, now,
                   regionIdx, count, attempts, fallbackIndex, sensors, previous>>
    /\ UNCHANGED <<rngVars, tickVars, uiVars>>

(***************************************************************************)
(* buildWorldSensorPoints                                                  *)
(***************************************************************************)
\* the record pushed by lines 63-94; rnd is the generator state before the iteration
WorldPoint(cluster, index, rnd, nowValue) ==
    LET lat == clamp(cluster.lat * (Fine \div 10) - cluster.spreadLat * Fine
                       + MulShift(Draw(rnd, 1), cluster.spreadLat * 2 * Fine, 0),
                     -58 * Fine, 82 * Fine)
        lng == clamp(cluster.lng * (Fine \div 10) - cluster.spreadLng * Fine
                       + MulShift(Draw(rnd, 2), cluster.spreadLng * 2 * Fine, 0),
                     -176 * Fine, 176 * Fine)
        status == QualityStatus(Draw(rnd, 3))
    IN  [id |-> <<cluster.key, index + 1>>,
         lat |-> round(lat),
         lng |-> round(lng),
         status |-> status,
         pm25 |-> Pm25For(status, Draw(rnd, 4)),
         temperature |-> 160 + MulShift(Draw(rnd, 5), 160, 1),
         humidity |-> 30 + MulShift(Draw(rnd, 6), 42, 1),
         updatedAt |-> nowValue,
         intensity |-> 75 + MulShift(Draw(rnd, 7), 90, 1)]

\* lines 57-59
WorldStart ==
    /\ fn = "world"
    /\ pc = "call"
    /\ pc' = "cluster"
    /\ random' = createSeededRandom(DefaultSeed)
    /\ now' = clock
    /\ sensors' = << >>
    /\ regionIdx' = 1
    /\ count' = 0
    /\ UNCHANGED <<fn, countryFeatures, seed, clock, invocation, featureIndex, attempts,
                   fallbackIndex, previous>>
    /\ UNCHANGED <<rngVars, tickVars, uiVars>>

\* one iteration of the for loop of lines 62-95; count is the loop's index
WorldIteration ==
    /\ pc = "cluster"
    /\ regionIdx <= Len(Clusters)
    /\ count < Clusters[regionIdx].count
    /\ sensors' = Append(sensors, WorldPoint(Clusters[regionIdx], count, random, now))
    /\ random' = Draw(random, 7)
    /\ count' = count + 1
    /\ UNCHANGED <<fn, countryFeatures, seed, clock, invocation, pc, featureIndex, now,
                   regionIdx, attempts, fallbackIndex, previous>>
    /\ UNCHANGED <<rngVars, tickVars, uiVars>>

\* the for loop ends; forEach moves to the next cluster, or line 98 returns points
WorldClusterDone ==
    /\ pc = "cluster"
    /\ regionIdx <= Len(Clusters)
    /\ ~(count < Clusters[regionIdx].count)
    /\ IF regionIdx < Len(Clusters)
       THEN /\ regionIdx' = regionIdx + 1
            /\ count' = 0
            /\ UNCHANGED pc
       ELSE /\ pc' = "done"
            /\ UNCHANGED <<regionIdx, count>>
    /\ UNCHANGED <<fn, countryFeatures, seed, clock, invocation, featureIndex, random, now,
                   attempts, fallbackIndex, sensors, previous>>
    /\ UNCHANGED <<rngVars, tickVars, uiVars>>

(***************************************************************************)
(* A second call with the same arguments, made once the first has          *)
(* returned; the clock may have advanced in between.                       *)
(***************************************************************************)
CallAgain ==
    /\ pc = "done"
    /\ invocation = 1
    /\ invocation' = 2
    /\ previous' = sensors
    /\ \E t \in {clock, clock + 1} : clock' = t
    /\ pc' = "call"
    /\ UNCHANGED <<fn, countryFeatures, seed, featureIndex, random, now, regionIdx, count,
                   attempts, fallbackIndex, sensors>>
    /\ UNCHANGED <<rngVars, tickVars, uiVars>>

Init == InitLand \/ InitWorld

Next ==
    \/ Start
    \/ RegionAttempt
    \/ RegionDone
    \/ FallbackAttempt
    \/ Return
    \/ WorldStart
    \/ WorldIteration
    \/ WorldClusterDone

Spec == Init /\ [][Next]_vars

\* the generator runs to completion: the loops are synchronous code
FairSpec == Spec /\ WF_vars(Next)

NextTwice == Next \/ CallAgain

SpecTwice == Init /\ [][NextTwice]_vars


(***************************************************************************)
(* A seeded generator on its own: createSeededRandom(seed), then calls.    *)
(***************************************************************************)
RngSeeds == {0, 1, 7, DefaultSeed, -1, -DefaultSeed, 2147483647}

InitRng ==
    /\ fn = "rng"
    /\ pc = "rng"
    /\ seed \in RngSeeds
    /\ random = createSeededRandom(seed)
    /\ rngCalls = 0
    /\ countryFeatures = NoFeatureList
    /\ clock = 1
    /\ invocation = 1
    /\ featureIndex = << >>
    /\ now = 0
    /\ regionIdx = 0
    /\ count = 0
    /\ attempts = 0
    /\ fallbackIndex = 0
    /\ sensors = << >>
    /\ previous = << >>
    /\ liveSensors = << >>
    /\ ticked = FALSE
    /\ IdleUi

\* one call of the closure: the state is updated and state / 4294967296 returned
RandomCall ==
    /\ pc = "rng"
    /\ rngCalls < MaxCalls
    /\ random' = LcgNext(random)
    /\ rngCalls' = rngCalls + 1
    /\ UNCHANGED <<fn, countryFeatures, seed, clock, invocation, pc, featureIndex, now,
                   regionIdx, count, attempts, fallbackIndex, sensors, previous>>
    /\ UNCHANGED <<tickVars, uiVars>>

NextRng == RandomCall

SpecRng == InitRng /\ [][NextRng]_vars

(***************************************************************************)
(* The live tick: Landing's timer calls setSensors(tickSensors(previous)). *)
(* tickSensors and createInitialSensors are imported from mock/sensors but *)
(* not defined in the sources at hand; they follow section 4.2 of the      *)
(* specification.                                                          *)
(***************************************************************************)
\* getStatusFromPm25
getStatusFromPm25StrictGood(pm25) ==
    IF pm25 < 15 THEN "good" ELSE IF pm25 <= 30 THEN "moderate" ELSE "poor"
getStatusFromPm25GoodToTen(pm25) ==
    IF pm25 <= 10 THEN "good" ELSE IF pm25 <= 30 THEN "moderate" ELSE "poor"
getStatusFromPm25(pm25) ==
    IF pm25 <= 15 THEN "good" ELSE IF pm25 <= 30 THEN "moderate" ELSE "poor"

\* the clamp ranges of a tick: pm25 as the specification gives it; the specification
\* gives no numbers for temperature (tenths of a degree) and humidity
TickPm25Min == 5
TickPm25Max == 95
TickTemperatureMin == 100
TickTemperatureMax == 350
TickHumidityMin == 20
TickHumidityMax == 90

\* the random deltas one record may receive in a tick: pm25 within +-3 units,
\* temperature within +-0.5 degree, humidity within +-2.5 percent
TickDeltas ==
    { [pm25 |-> -3, temperature |-> -5, humidity |-> -2],
      [pm25 |-> 3, temperature |-> 5, humidity |-> 2],
      [pm25 |-> 1, temperature |-> 5, humidity |-> 2],
      [pm25 |-> -1, temperature |-> -5, humidity |-> -2] }

tickSensor(sensor, delta, nowValue) ==
    LET pm25 == clamp(sensor.pm25 + delta.pm25, TickPm25Min, TickPm25Max)
    IN  [sensor EXCEPT
            !.pm25 = pm25,
            !.temperature = clamp(sensor.temperature + delta.temperature,
                                  TickTemperatureMin, TickTemperatureMax),
            !.humidity = clamp(sensor.humidity + delta.humidity,
                               TickHumidityMin, TickHumidityMax),
            !.status = getStatusFromPm25(pm25),
            !.updatedAt = nowValue]

tickSensors(previousSensors, deltas, nowValue) ==
    [i \in 1..Len(previousSensors) |-> tickSensor(previousSensors[i], deltas[i], nowValue)]

LiveRecord(key, pm25, temperature, humidity) ==
    [id |-> <<key, 1>>, lat |-> 0, lng |-> 0, status |-> getStatusFromPm25(pm25),
     pm25 |-> pm25, temperature |-> temperature, humidity |-> humidity,
     updatedAt |-> 0, intensity |-> 100]

\* the record sets a tick starts from; a tick maps the records one by one, each with
\* its own deltas
TickInputs ==
    { << >>,
      << LiveRecord("a", 12, 200, 40) >>,
      << LiveRecord("b", 30, 320, 72) >>,
      << LiveRecord("c", 94, 104, 22) >> }

InitTick ==
    /\ fn = "tick"
    /\ pc = "tick"
    /\ liveSensors \in TickInputs
    /\ ticked = FALSE
    /\ seed = 0
    /\ random = createSeededRandom(0)
    /\ rngCalls = 0
    /\ countryFeatures = NoFeatureList
    /\ clock = 1
    /\ invocation = 1
    /\ featureIndex = << >>
    /\ now = 0
    /\ regionIdx = 0
    /\ count = 0
    /\ attempts = 0
    /\ fallbackIndex = 0
    /\ sensors = << >>
    /\ previous = << >>
    /\ IdleUi

\* the timer callback of Landing.jsx lines 24-27
Tick ==
    /\ pc = "tick"
    /\ \E deltas \in [1..Len(liveSensors) -> TickDeltas] :
           liveSensors' = tickSensors(liveSensors, deltas, clock)
    /\ ticked' = TRUE
    /\ UNCHANGED genVars
    /\ UNCHANGED <<rngVars, uiVars>>

NextTick == Tick

SpecTick == InitTick /\ [][NextTick]_vars

(***************************************************************************)
(* LandingSensorMap: viewports and marker projection.  Latitudes and       *)
(* longitudes of this component are integers in units of 10^-6 degree, so  *)
(* that 45% of a span of stored (4-decimal) coordinates is exact.          *)
(***************************************************************************)
MaxMapSensors == 3

\* one degree in units of 10^-6 degree
Micro == 10 ^ 6

\* the viewport returned for an empty list: 59.27, 59.36, 18.0, 18.13
DefaultViewport ==
    [minLat |-> 5927 * 10000, maxLat |-> 5936 * 10000,
     minLng |-> 1800 * 10000, maxLng |-> 1813 * 10000]

\* the span floor 0.02 of (maxLat - minLat || 0.02), and the padding factor 0.45 in percent
SpanFloor == 20000
PaddingPercent == 45

\* Math.min(...values) and Math.max(...values) over a mapped list
MinOf(values) == CHOOSE v \in values : \A w \in values : v <= w
MaxOf(values) == CHOOSE v \in values : \A w \in values : v >= w

\* (span || 0.02) * 0.45
PaddingNoFloor(span) == (span * PaddingPercent) \div 100
PaddingTenth(span) == ((IF span = 0 THEN SpanFloor ELSE span) * 10) \div 100
Padding(span) == ((IF span = 0 THEN SpanFloor ELSE span) * PaddingPercent) \div 100

buildViewportFromSensors(list) ==
    IF Len(list) = 0
    THEN DefaultViewport
    ELSE LET lats == {list[i].lat : i \in 1..Len(list)}
             lngs == {list[i].lng : i \in 1..Len(list)}
             minLat == MinOf(lats)
             maxLat == MaxOf(lats)
             minLng == MinOf(lngs)
             maxLng == MaxOf(lngs)
             latPadding == Padding(maxLat - minLat)
             lngPadding == Padding(maxLng - minLng)
         IN  [minLat |-> minLat - latPadding, maxLat |-> maxLat + latPadding,
              minLng |-> minLng - lngPadding, maxLng |-> maxLng + lngPadding]

\* const latSpan = 0.05; const lngSpan = 0.08
FocusLatSpan == 50000
FocusLngSpan == 80000

\* a focus viewport that starts at the base viewport's corner whatever the sensor
buildFocusViewportAtCorner(sensor, base) ==
    [minLat |-> base.minLat, maxLat |-> base.minLat + FocusLatSpan,
     minLng |-> base.minLng, maxLng |-> base.minLng + FocusLngSpan]

buildFocusViewport(sensor, base) ==
    LET minLat == clamp(sensor.lat - FocusLatSpan \div 2, base.minLat, base.maxLat - FocusLatSpan)
        minLng == clamp(sensor.lng - FocusLngSpan \div 2, base.minLng, base.maxLng - FocusLngSpan)
    IN  [minLat |-> minLat, maxLat |-> minLat + FocusLatSpan,
         minLng |-> minLng, maxLng |-> minLng + FocusLngSpan]

\* num / den < k and num / den > k for a non-zero den of either sign
RatioBelow(num, den, k) == IF den > 0 THEN num < k * den ELSE num > k * den
RatioAbove(num, den, k) == IF den > 0 THEN num > k * den ELSE num < k * den

\* the tolerance of line 105, in percent of the viewport
MarkerTolerance == 2

\* a marker position is a pair of fractions: x = x.num / x.den, y = y.num / y.den
NullMarker == [isNull |-> TRUE, x |-> [num |-> 0, den |-> 1], y |-> [num |-> 0, den |-> 1]]

projectMarkerClips(sensor, view) ==
    LET lngSpan == view.maxLng - view.minLng
        latSpan == view.maxLat - view.minLat
        xNum == (sensor.lng - view.minLng) * 100
        yNum == (view.maxLat - sensor.lat) * 100
    IN  IF lngSpan = 0 \/ latSpan = 0
        THEN NullMarker
        ELSE [isNull |-> FALSE,
              x |-> IF RatioBelow(xNum, lngSpan, 0) THEN [num |-> 0, den |-> lngSpan]
                    ELSE IF RatioAbove(xNum, lngSpan, 100) THEN [num |-> 100 * lngSpan, den |-> lngSpan]
                    ELSE [num |-> xNum, den |-> lngSpan],
              y |-> IF RatioBelow(yNum, latSpan, 0) THEN [num |-> 0, den |-> latSpan]
                    ELSE IF RatioAbove(yNum, latSpan, 100) THEN [num |-> 100 * latSpan, den |-> latSpan]
                    ELSE [num |-> yNum, den |-> latSpan]]
projectMarker(sensor, view) ==
    LET lngSpan == view.maxLng - view.minLng
        latSpan == view.maxLat - view.minLat
        xNum == (sensor.lng - view.minLng) * 100
        yNum == (view.maxLat - sensor.lat) * 100
    IN  IF lngSpan = 0 \/ latSpan = 0
        THEN NullMarker
        ELSE IF \/ RatioBelow(xNum, lngSpan, -MarkerTolerance)
                \/ RatioAbove(xNum, lngSpan, 100 + MarkerTolerance)
                \/ RatioBelow(yNum, latSpan, -MarkerTolerance)
                \/ RatioAbove(yNum, latSpan, 100 + MarkerTolerance)
        THEN NullMarker
        ELSE [isNull |-> FALSE,
              x |-> [num |-> xNum, den |-> lngSpan],
              y |-> [num |-> yNum, den |-> latSpan]]

\* filteredSensors.map(sensor => projectMarker(sensor, viewport)), lines 237-241, with
\* the search box empty and the status filter on "all"
RenderMarkers(list, view) == [i \in 1..Len(list) |-> projectMarker(list[i], view)]

\* a sensor of the city map: id and stored position
MapSensor(id, lat, lng) == [id |-> id, lat |-> lat, lng |-> lng]

\* sensors around the default viewport; "d" lies far from the others
MapPoints ==
    { MapSensor("a", 5930 * 10000, 1805 * 10000),
      MapSensor("b", 5930 * 10000, 1810 * 10000),
      MapSensor("c", 5934 * 10000, 1805 * 10000),
      MapSensor("d", 5990 * 10000, 1900 * 10000) }

\* lists of up to MaxMapSensors distinct sensors
MapSensorLists ==
    { list \in UNION { [1..n -> MapPoints] : n \in 0..MaxMapSensors } :
        \A i, j \in 1..Len(list) : i # j => list[i] # list[j] }

\* viewports handed to projectMarker alone: the default one, one of span 0.1 by 0.1,
\* one without width, one without height, one turned upside down
ProbeViewports ==
    { DefaultViewport,
      [minLat |-> 59 * Micro, maxLat |-> 59 * Micro + 100000,
       minLng |-> 18 * Micro, maxLng |-> 18 * Micro + 100000],
      [minLat |-> 59 * Micro, maxLat |-> 59 * Micro + 100000,
       minLng |-> 18 * Micro, maxLng |-> 18 * Micro],
      [minLat |-> 59 * Micro, maxLat |-> 59 * Micro,
       minLng |-> 18 * Micro, maxLng |-> 18 * Micro + 100000],
      [minLat |-> 59 * Micro + 100000, maxLat |-> 59 * Micro,
       minLng |-> 18 * Micro + 100000, maxLng |-> 18 * Micro] }

\* positions on, just inside and just outside the 2% margin of the 0.1 by 0.1 viewport
ProbeOffsets == {-2100, -2000, 0, 50000, 100000, 102000, 102100}
ProbePoints ==
    { MapSensor("p", 59 * Micro + dLat, 18 * Micro + dLng) :
        dLat \in ProbeOffsets, dLng \in ProbeOffsets }

\* the component before its first render, with the sensors prop it is given
InitMap ==
    /\ fn = "map"
    /\ IdleGen
    /\ IdleCanvas
    /\ IdleAuth
    /\ IdleLive
    /\ IdleGeo
    /\ mapPc = "mount"
    /\ mapSensors \in MapSensorLists
    /\ baseViewport = [minLat |-> 0, maxLat |-> 0, minLng |-> 0, maxLng |-> 0]
    /\ viewport = [minLat |-> 0, maxLat |-> 0, minLng |-> 0, maxLng |-> 0]
    /\ selectedSensorId = "none"
    /\ markers = << >>
    /\ mapEvent = "none"

\* projectMarker called on its own with one sensor and one viewport
InitProject ==
    /\ fn = "project"
    /\ IdleGen
    /\ IdleCanvas
    /\ IdleAuth
    /\ IdleLive
    /\ IdleGeo
    /\ mapPc = "render"
    /\ \E point \in ProbePoints : mapSensors = << point >>
    /\ viewport \in ProbeViewports
    /\ baseViewport = viewport
    /\ selectedSensorId = "none"
    /\ markers = << >>
    /\ mapEvent = "none"

\* first render, lines 177-178: baseViewport is computed and is the initial viewport
MapMount ==
    /\ mapPc = "mount"
    /\ baseViewport' = buildViewportFromSensors(mapSensors)
    /\ viewport' = baseViewport'
    /\ mapPc' = "render"
    /\ UNCHANGED <<mapSensors, selectedSensorId, markers, mapEvent>>
    /\ UNCHANGED notMapVars

\* the marker layer of lines 237-241 is drawn for the current viewport
MapRender ==
    /\ mapPc = "render"
    /\ markers' = RenderMarkers(mapSensors, viewport)
    /\ mapPc' = "idle"
    /\ UNCHANGED <<mapSensors, baseViewport, viewport, selectedSensorId, mapEvent>>
    /\ UNCHANGED notMapVars

\* handleSelectSensor, lines 198-201, from a marker or from the sensor list
handleSelectSensor ==
    /\ fn = "map"
    /\ mapPc = "idle"
    /\ \E i \in 1..Len(mapSensors) :
        /\ selectedSensorId' = mapSensors[i].id
        /\ viewport' = buildFocusViewport(mapSensors[i], baseViewport)
    /\ mapPc' = "render"
    /\ mapEvent' = "select"
    /\ UNCHANGED <<mapSensors, baseViewport, markers>>
    /\ UNCHANGED notMapVars

\* "Reset map view", line 277
ResetMapView ==
    /\ fn = "map"
    /\ mapPc = "idle"
    /\ viewport' = baseViewport
    /\ mapPc' = "render"
    /\ mapEvent' = "reset"
    /\ UNCHANGED <<mapSensors, baseViewport, selectedSensorId, markers>>
    /\ UNCHANGED notMapVars

NextMap == MapMount \/ MapRender \/ handleSelectSensor \/ ResetMapView

SpecMap == (InitMap \/ InitProject) /\ [][NextMap]_vars

(***************************************************************************)
(* WorldSensorBackground: toCanvasPosition.  Degrees and pixels are        *)
(* integers in hundredths.                                                 *)
(***************************************************************************)
WIDTH == 1440
HEIGHT == 720

\* one degree, and one pixel, in hundredths
Centi == 100

\* x: ((lng + 180) / 360) * WIDTH, y: ((90 - lat) / 180) * HEIGHT
toCanvasPositionUpsideDown(lat, lng) ==
    [x |-> ((lng + 180 * Centi) * WIDTH) \div 360,
     y |-> ((lat + 90 * Centi) * HEIGHT) \div 180]
toCanvasPosition(lat, lng) ==
    [x |-> ((lng + 180 * Centi) * WIDTH) \div 360,
     y |-> ((90 * Centi - lat) * HEIGHT) \div 180]

\* latitudes and longitudes handed to toCanvasPosition: the corners, the centre and
\* positions in between
CanvasLats == {-9000, -4500, -1, 0, 3333, 5930, 9000}
CanvasLngs == {-18000, -9000, -1, 0, 1805, 9000, 12345, 17999, 18000}

InitCanvas ==
    /\ fn = "canvas"
    /\ IdleGen
    /\ IdleMap
    /\ IdleAuth
    /\ IdleLive
    /\ IdleGeo
    /\ canvasPc = "call"
    /\ canvasLat \in CanvasLats
    /\ canvasLng \in CanvasLngs
    /\ canvasPosition = [x |-> 0, y |-> 0]

\* one call of toCanvasPosition (buildPath line 117, sensor layer line 133)
ToCanvasPosition ==
    /\ canvasPc = "call"
    /\ canvasPosition' = toCanvasPosition(canvasLat, canvasLng)
    /\ canvasPc' = "done"
    /\ UNCHANGED <<canvasLat, canvasLng>>
    /\ UNCHANGED notCanvasVars

NextCanvas == ToCanvasPosition

SpecCanvas == InitCanvas /\ [][NextCanvas]_vars

(***************************************************************************)
(* AuthProvider, App and SignInModal: the mock sign-in.  A string is a     *)
(* sequence of characters; "a" stands for any character that trim() keeps, *)
(* " " for white space.                                                    *)
(***************************************************************************)
MaxCredentialLen == 2

Characters == {"a", " "}

\* what can be typed into a field
CredentialStrings == UNION { [1..n -> Characters] : n \in 0..MaxCredentialLen }

\* String.prototype.trim: white space is removed from both ends
RECURSIVE trimStart(_)
trimStart(str) ==
    IF Len(str) > 0 /\ Head(str) = " " THEN trimStart(Tail(str)) ELSE str

RECURSIVE trimEnd(_)
trimEnd(str) ==
    IF Len(str) > 0 /\ str[Len(str)] = " "
    THEN trimEnd(SubSeq(str, 1, Len(str) - 1))
    ELSE str

trim(str) == trimEnd(trimStart(str))

\* typeof value === "string" && value.trim().length > 0, lines 19-20
hasText(str) == Len(trim(str)) > 0

\* what login(email, password) returns, lines 19-30
loginAccepts(emailValue, passwordValue) == hasText(emailValue) /\ hasText(passwordValue)

\* the longest window.history the model keeps; a push beyond it drops the oldest entry
MaxHistory == 2

\* "/rooms/%" stands for a room path whose id is a malformed escape sequence, "/globe"
\* for a path without a route
Paths == {"/", "/signin", "/dashboard", "/rooms/1", "/rooms/%", "/globe"}
\* the href of the links the pages render (SpaLink)
LinkTargets == {"/", "/signin", "/dashboard", "/rooms/1", "/globe"}

\* pathname.match(/^\/rooms\/([^/]+)$/), App.jsx line 19
RoomPaths == {"/rooms/1", "/rooms/%"}
\* decodeURIComponent(match[1]) raises a URIError on a malformed escape sequence, line 24
getRoomRouteThrows(path) == path = "/rooms/%"
getRoomRoute(path) == IF path \in RoomPaths THEN "room" ELSE "null"

\* RequireAuth's render, lines 345-349
RequireAuthRendersChildren(authenticated, children) == children
RequireAuth(authenticated, children) ==
    IF ~authenticated THEN "none" ELSE children

\* the route resolution of App.jsx lines 164-190
Content(path, authenticated) ==
    IF path = "/" THEN "PublicLanding"
    ELSE IF path = "/signin" THEN "none"
    ELSE IF path = "/dashboard" THEN RequireAuth(authenticated, "Dashboard")
    ELSE IF getRoomRoute(path) # "null" THEN RequireAuth(authenticated, "Room")
    ELSE "NotFound"

\* window.location.pathname
Location == history[historyIndex]

\* window.history.pushState: the entries after the current one are dropped
pushState(path) ==
    LET entries == Append(SubSeq(history, 1, historyIndex), path)
    IN  IF Len(entries) > MaxHistory
        THEN [history |-> Tail(entries), historyIndex |-> MaxHistory]
        ELSE [history |-> entries, historyIndex |-> Len(entries)]

\* window.history.replaceState
replaceState(path) ==
    [history |-> [history EXCEPT ![historyIndex] = path], historyIndex |-> historyIndex]

\* what navigate does to window.history, App.jsx lines 70-78
navigate(nextPath, replace) ==
    IF Location # nextPath
    THEN IF replace THEN replaceState(nextPath) ELSE pushState(nextPath)
    ELSE [history |-> history, historyIndex |-> historyIndex]

\* the options handleUnauthenticated and the /signin effect pass to navigate
navigatePushOptions == [replace |-> FALSE]
handleUnauthenticatedOptions == [replace |-> TRUE]

\* the document is loaded at a path: the provider reads the storage, App reads the path
InitAuth ==
    /\ fn = "auth"
    /\ IdleGen
    /\ IdleMap
    /\ IdleCanvas
    /\ IdleLive
    /\ IdleGeo
    /\ authStorage \in BOOLEAN
    /\ isAuthenticated = authStorage
    /\ email = << >>
    /\ password = << >>
    /\ errorMessage = ""
    /\ isSignInOpen = FALSE
    /\ postLoginPath = "null"
    /\ pathname \in Paths
    /\ loginCall = NoLoginCall
    /\ history = << pathname >>
    /\ historyIndex = 1
    /\ appPc = "render"
    /\ content = "none"
    /\ guardDeps = "unmounted"
    /\ pathDeps = "unset"
    /\ openedBy = "none"
    /\ dashboardCancelled = FALSE

\* a (re)load of the document at a path: a reload, a typed address, a plain link
Load ==
    /\ fn = "auth"
    /\ appPc \in {"idle", "crashed"}
    /\ \E path \in Paths :
        /\ pathname' = path
        /\ history' = << path >>
    /\ historyIndex' = 1
    /\ isAuthenticated' = authStorage
    /\ email' = << >>
    /\ password' = << >>
    /\ errorMessage' = ""
    /\ isSignInOpen' = FALSE
    /\ postLoginPath' = "null"
    /\ appPc' = "render"
    /\ content' = "none"
    /\ guardDeps' = "unmounted"
    /\ pathDeps' = "unset"
    /\ openedBy' = "none"
    /\ dashboardCancelled' = FALSE
    /\ UNCHANGED <<authStorage, loginCall>>
    /\ UNCHANGED notAuthVars

\* App's render, lines 162-190: getRoomRoute runs first and may throw, which unmounts
\* the application
Render ==
    /\ fn = "auth"
    /\ appPc = "render"
    /\ IF getRoomRouteThrows(pathname)
       THEN /\ appPc' = "crashed"
            /\ content' = "none"
       ELSE /\ appPc' = "effects"
            /\ content' = Content(pathname, isAuthenticated)
    /\ UNCHANGED <<isAuthenticated, authStorage, email, password, errorMessage,
                   isSignInOpen, postLoginPath, pathname, loginCall, history, historyIndex,
                   guardDeps, pathDeps, openedBy, dashboardCancelled>>
    /\ UNCHANGED notAuthVars

\* the effects that follow a render: RequireAuth's (lines 339-343, run when it mounts and
\* when isAuthenticated changes) and App's /signin effect (lines 156-160, run when
\* pathname changes); both navigate("/", { replace: true })
Effects ==
    /\ fn = "auth"
    /\ appPc = "effects"
    /\ LET mounted == pathname = "/dashboard" \/ getRoomRoute(pathname) # "null"
           guardNow == IF ~mounted THEN "unmounted"
                       ELSE IF isAuthenticated THEN "true" ELSE "false"
           unauthenticated == mounted /\ guardDeps # guardNow /\ ~isAuthenticated
           signin == pathDeps # pathname /\ pathname = "/signin"
           after == navigate("/", handleUnauthenticatedOptions.replace)
       IN  /\ guardDeps' = guardNow
           /\ pathDeps' = pathname
           /\ IF unauthenticated \/ signin
              THEN /\ history' = after.history
                   /\ historyIndex' = after.historyIndex
                   /\ pathname' = "/"
                   /\ appPc' = "render"
              ELSE /\ appPc' = "idle"
                   /\ UNCHANGED <<history, historyIndex, pathname>>
    /\ UNCHANGED <<isAuthenticated, authStorage, email, password, errorMessage,
                   isSignInOpen, postLoginPath, loginCall, content, openedBy,
                   dashboardCancelled>>
    /\ UNCHANGED notAuthVars

\* a click on a SpaLink, handleDocumentClick of lines 121-142: navigate(url.pathname)
LinkClick ==
    /\ fn = "auth"
    /\ appPc = "idle"
    /\ content # "none"
    /\ \E path \in LinkTargets :
        LET after == navigate(path, navigatePushOptions.replace)
        IN  /\ history' = after.history
            /\ historyIndex' = after.historyIndex
            /\ pathname' = path
    /\ appPc' = "render"
    /\ UNCHANGED <<isAuthenticated, authStorage, email, password, errorMessage,
                   isSignInOpen, postLoginPath, loginCall, content, guardDeps, pathDeps,
                   openedBy, dashboardCancelled>>
    /\ UNCHANGED notAuthVars

\* the browser's Back or Forward button, handlePopState of lines 117-119
PopState ==
    /\ fn = "auth"
    /\ appPc = "idle"
    /\ \E index \in (1..Len(history)) \ {historyIndex} :
        /\ historyIndex' = index
        /\ pathname' = history[index]
    /\ appPc' = "render"
    /\ UNCHANGED <<isAuthenticated, authStorage, email, password, errorMessage,
                   isSignInOpen, postLoginPath, loginCall, history, content, guardDeps,
                   pathDeps, openedBy, dashboardCancelled>>
    /\ UNCHANGED notAuthVars

\* openSignInModal() from the landing page's "Sign in" button, App.jsx lines 83-86, 169;
\* the button is rendered for a signed-out user (PublicLanding)
openSignInModal ==
    /\ fn = "auth"
    /\ appPc = "idle"
    /\ content = "PublicLanding"
    /\ ~isAuthenticated
    /\ postLoginPath' = "null"
    /\ isSignInOpen' = TRUE
    /\ openedBy' = "Sign in"
    /\ UNCHANGED <<isAuthenticated, authStorage, email, password, errorMessage, pathname,
                   loginCall, history, historyIndex, appPc, content, guardDeps, pathDeps,
                   dashboardCancelled>>
    /\ UNCHANGED notAuthVars

\* handleGoDashboard, App.jsx lines 103-110
handleGoDashboard ==
    /\ fn = "auth"
    /\ appPc = "idle"
    /\ content = "PublicLanding"
    /\ IF isAuthenticated
       THEN LET after == navigate("/dashboard", navigatePushOptions.replace)
            IN  /\ history' = after.history
                /\ historyIndex' = after.historyIndex
                /\ pathname' = "/dashboard"
                /\ appPc' = "render"
                /\ UNCHANGED <<postLoginPath, isSignInOpen, openedBy>>
       ELSE /\ postLoginPath' = "/dashboard"
            /\ isSignInOpen' = TRUE
            /\ openedBy' = "Go to Dashboard"
            /\ UNCHANGED <<pathname, history, historyIndex, appPc>>
    /\ UNCHANGED <<isAuthenticated, authStorage, email, password, errorMessage, loginCall,
                   content, guardDeps, pathDeps, dashboardCancelled>>
    /\ UNCHANGED notAuthVars

\* closeSignInModal, App.jsx lines 88-91 (Close, Escape, click on the overlay), and the
\* modal's effect of lines 223-229, which clears the form once isOpen is false
closeSignInModal ==
    /\ fn = "auth"
    /\ appPc = "idle"
    /\ isSignInOpen
    /\ isSignInOpen' = FALSE
    /\ postLoginPath' = "null"
    /\ email' = << >>
    /\ password' = << >>
    /\ errorMessage' = ""
    /\ dashboardCancelled' = (dashboardCancelled \/ openedBy = "Go to Dashboard")
    /\ UNCHANGED <<isAuthenticated, authStorage, pathname, loginCall, history,
                   historyIndex, appPc, content, guardDeps, pathDeps, openedBy>>
    /\ UNCHANGED notAuthVars

\* onChange of the email field, line 289
setEmail ==
    /\ fn = "auth"
    /\ appPc = "idle"
    /\ isSignInOpen
    /\ \E value \in CredentialStrings : email' = value
    /\ UNCHANGED <<isAuthenticated, authStorage, password, errorMessage, isSignInOpen,
                   postLoginPath, pathname, loginCall, history, historyIndex, appPc,
                   content, guardDeps, pathDeps, openedBy, dashboardCancelled>>
    /\ UNCHANGED notAuthVars

\* onChange of the password field, line 300
setPassword ==
    /\ fn = "auth"
    /\ appPc = "idle"
    /\ isSignInOpen
    /\ \E value \in CredentialStrings : password' = value
    /\ UNCHANGED <<isAuthenticated, authStorage, email, errorMessage, isSignInOpen,
                   postLoginPath, pathname, loginCall, history, historyIndex, appPc,
                   content, guardDeps, pathDeps, openedBy, dashboardCancelled>>
    /\ UNCHANGED notAuthVars

\* handleSubmit with a rejected sign-in that also closes the modal
handleSubmitClosesOnFailure ==
    /\ fn = "auth"
    /\ appPc = "idle"
    /\ isSignInOpen
    /\ loginCall' = [made |-> TRUE, email |-> email, password |-> password,
                     returned |-> loginAccepts(email, password)]
    /\ isAuthenticated' = loginAccepts(email, password)
    /\ authStorage' = loginAccepts(email, password)
    /\ errorMessage' = IF loginAccepts(email, password) THEN ""
                       ELSE "Enter a valid email and password to continue."
    /\ isSignInOpen' = FALSE
    /\ postLoginPath' = "null"
    /\ email' = << >>
    /\ password' = << >>
    /\ appPc' = "render"
    /\ UNCHANGED <<pathname, history, historyIndex, content, guardDeps, pathDeps,
                   openedBy, dashboardCancelled>>
    /\ UNCHANGED notAuthVars

\* handleSubmit whose onSuccess always navigates to the dashboard
handleSubmitAlwaysToDashboard ==
    /\ fn = "auth"
    /\ appPc = "idle"
    /\ isSignInOpen
    /\ loginCall' = [made |-> TRUE, email |-> email, password |-> password,
                     returned |-> loginAccepts(email, password)]
    /\ IF ~loginAccepts(email, password)
       THEN /\ errorMessage' = "Enter a valid email and password to continue."
            /\ UNCHANGED <<isAuthenticated, authStorage, email, password, isSignInOpen,
                           postLoginPath, pathname, history, historyIndex, appPc>>
       ELSE /\ isAuthenticated' = TRUE
            /\ authStorage' = TRUE
            /\ isSignInOpen' = FALSE
            /\ postLoginPath' = "null"
            /\ history' = navigate("/dashboard", FALSE).history
            /\ historyIndex' = navigate("/dashboard", FALSE).historyIndex
            /\ pathname' = "/dashboard"
            /\ email' = << >>
            /\ password' = << >>
            /\ errorMessage' = ""
            /\ appPc' = "render"
    /\ UNCHANGED <<content, guardDeps, pathDeps, openedBy, dashboardCancelled>>
    /\ UNCHANGED notAuthVars

\* handleSubmit, lines 235-245: login (AuthContext lines 18-31), then either the error
\* message or onSuccess = handleSignInSuccess (App.jsx lines 93-101) and the form reset
handleSubmit ==
    /\ fn = "auth"
    /\ appPc = "idle"
    /\ isSignInOpen
    /\ LET didLogin == loginAccepts(email, password)
           after == IF postLoginPath # "null"
                    THEN navigate(postLoginPath, navigatePushOptions.replace)
                    ELSE [history |-> history, historyIndex |-> historyIndex]
       IN  /\ loginCall' = [made |-> TRUE, email |-> email, password |-> password,
                            returned |-> didLogin]
           /\ IF ~didLogin
              THEN /\ errorMessage' = "Enter a valid email and password to continue."
                   /\ UNCHANGED <<isAuthenticated, authStorage, email, password,
                                  isSignInOpen, postLoginPath, pathname, history,
                                  historyIndex, appPc>>
              ELSE /\ isAuthenticated' = TRUE
                   /\ authStorage' = TRUE
                   /\ isSignInOpen' = FALSE
                   /\ postLoginPath' = "null"
                   /\ history' = after.history
                   /\ historyIndex' = after.historyIndex
                   /\ pathname' = IF postLoginPath # "null" THEN postLoginPath ELSE pathname
                   /\ email' = << >>
                   /\ password' = << >>
                   /\ errorMessage' = ""
                   /\ appPc' = "render"
    /\ UNCHANGED <<content, guardDeps, pathDeps, openedBy, dashboardCancelled>>
    /\ UNCHANGED notAuthVars

\* logout that leaves the storage key in place
logoutKeepsStorage ==
    /\ fn = "auth"
    /\ appPc = "idle"
    /\ isAuthenticated
    /\ content \in {"PublicLanding", "Dashboard", "Room"}
    /\ isAuthenticated' = FALSE
    /\ appPc' = "render"
    /\ UNCHANGED <<authStorage, email, password, errorMessage, isSignInOpen, postLoginPath,
                   pathname, loginCall, history, historyIndex, content, guardDeps,
                   pathDeps, openedBy, dashboardCancelled>>
    /\ UNCHANGED notAuthVars

\* logout, AuthContext lines 33-38, from the "Log out" button of the landing page, the
\* dashboard or a room page
logout ==
    /\ fn = "auth"
    /\ appPc = "idle"
    /\ isAuthenticated
    /\ content \in {"PublicLanding", "Dashboard", "Room"}
    /\ isAuthenticated' = FALSE
    /\ authStorage' = FALSE
    /\ appPc' = "render"
    /\ UNCHANGED <<email, password, errorMessage, isSignInOpen, postLoginPath, pathname,
                   loginCall, history, historyIndex, content, guardDeps, pathDeps,
                   openedBy, dashboardCancelled>>
    /\ UNCHANGED notAuthVars

NextAuth ==
    \/ Load
    \/ Render
    \/ Effects
    \/ LinkClick
    \/ PopState
    \/ openSignInModal
    \/ handleGoDashboard
    \/ closeSignInModal
    \/ setEmail
    \/ setPassword
    \/ handleSubmit
    \/ logout

SpecAuth == InitAuth /\ [][NextAuth]_vars

(***************************************************************************)
(* Landing and PublicLanding: the timer effects that drive the live tick.  *)
(***************************************************************************)
MaxTimerCallbacks == 3

\* 5000 + Math.floor(Math.random() * 5001): the least, a middle and the greatest delay
TimeoutDelays == {5000, 7500, 10000}
IntervalDelay == 8000

\* window.setTimeout / window.setInterval: a fresh timer id
NewTimerId == timerCallbacks + 1

\* what createInitialSensors() may return: the record sets of the tick, and a list of
\* two sensors
LiveInputs ==
    TickInputs \cup {<< LiveRecord("b", 30, 320, 72), LiveRecord("a", 12, 200, 40) >>}

\* useState(null) in Landing (line 11); sensors.length ? sensors[0].id : null in
\* PublicLanding (lines 506-508)
InitialSelection(kind, list) ==
    IF kind = "interval" /\ Len(list) > 0 THEN list[1].id ELSE << >>

InitLive ==
    /\ fn = "live"
    /\ IdleGenerator
    /\ IdleMap
    /\ IdleCanvas
    /\ IdleAuth
    /\ IdleGeo
    /\ liveSensors \in LiveInputs
    /\ ticked = FALSE
    /\ livePc = "mounting"
    /\ liveKind \in {"timeout", "interval"}
    /\ timers = {}
    /\ timerId = 0
    /\ timerCallbacks = 0
    /\ liveSelectedSensorId = InitialSelection(liveKind, liveSensors)
    /\ selectionEffectPending = FALSE
    /\ panelClosed = FALSE

\* the body of Landing's selection effect, lines 14-16, with the selection left null
selectionEffectKeepsNull(selected, list) == selected

\* the body of Landing's selection effect, lines 14-16: the value of selectedSensorId
\* after it
selectionEffect(selected, list) ==
    IF selected = << >> /\ Len(list) > 0 THEN list[1].id ELSE selected

\* the effects of the first render: Landing's selection effect (lines 13-17) and the
\* timer effect body, Landing lines 20-30 (scheduleNextUpdate()), PublicLanding lines
\* 511-513
LiveEffect ==
    /\ livePc = "mounting"
    /\ \E delay \in (IF liveKind = "timeout" THEN TimeoutDelays ELSE {IntervalDelay}) :
           timers' = timers \cup {[id |-> NewTimerId, delay |-> delay]}
    /\ timerId' = NewTimerId
    /\ livePc' = "mounted"
    /\ liveSelectedSensorId' =
           IF liveKind = "timeout"
           THEN selectionEffect(liveSelectedSensorId, liveSensors)
           ELSE liveSelectedSensorId
    /\ UNCHANGED <<liveKind, timerCallbacks, liveSensors, ticked, selectionEffectPending,
                   panelClosed>>
    /\ UNCHANGED notLiveVars

\* a pending timer fires and its callback runs: setSensors(tickSensors), which React
\* applies only to a mounted component, and for Landing scheduleNextUpdate() again;
\* the new sensors list is a dependency of Landing's selection effect
TimerCallback ==
    /\ timerCallbacks < MaxTimerCallbacks
    /\ \E timer \in timers :
        /\ timerCallbacks' = timerCallbacks + 1
        /\ IF livePc = "mounted"
           THEN /\ \E deltas \in [1..Len(liveSensors) -> TickDeltas] :
                       liveSensors' = tickSensors(liveSensors, deltas, clock)
                /\ ticked' = TRUE
                /\ selectionEffectPending' = (liveKind = "timeout")
           ELSE UNCHANGED <<liveSensors, ticked, selectionEffectPending>>
        /\ IF liveKind = "timeout"
           THEN /\ \E delay \in TimeoutDelays :
                       timers' = (timers \ {timer})
                                     \cup {[id |-> NewTimerId + 1, delay |-> delay]}
                /\ timerId' = NewTimerId + 1
           ELSE UNCHANGED <<timers, timerId>>
    /\ UNCHANGED <<livePc, liveKind, liveSelectedSensorId, panelClosed>>
    /\ UNCHANGED notLiveVars

\* the sensor panel's Close button, LandingSensorMap line 357: onSelectSensor(null)
ClosePanel ==
    /\ fn = "live"
    /\ livePc = "mounted"
    /\ liveSelectedSensorId # << >>
    /\ liveSelectedSensorId' = << >>
    /\ selectionEffectPending' = (liveKind = "timeout")
    /\ panelClosed' = TRUE
    /\ UNCHANGED <<livePc, liveKind, timers, timerId, timerCallbacks, liveSensors, ticked>>
    /\ UNCHANGED notLiveVars

\* a click on a marker or on a row of the sensor list, LandingSensorMap lines 198-199:
\* onSelectSensor(sensor.id)
SelectSensor ==
    /\ fn = "live"
    /\ livePc = "mounted"
    /\ \E i \in 1..Len(liveSensors) :
        /\ liveSensors[i].id # liveSelectedSensorId
        /\ liveSelectedSensorId' = liveSensors[i].id
    /\ selectionEffectPending' = (liveKind = "timeout")
    /\ UNCHANGED <<livePc, liveKind, timers, timerId, timerCallbacks, liveSensors, ticked,
                   panelClosed>>
    /\ UNCHANGED notLiveVars

\* Landing's selection effect, lines 13-17, run after a render in which selectedSensorId
\* or sensors changed
SelectionEffect ==
    /\ fn = "live"
    /\ livePc = "mounted"
    /\ selectionEffectPending
    /\ liveSelectedSensorId' = selectionEffect(liveSelectedSensorId, liveSensors)
    /\ selectionEffectPending' = FALSE
    /\ UNCHANGED <<livePc, liveKind, timers, timerId, timerCallbacks, liveSensors, ticked,
                   panelClosed>>
    /\ UNCHANGED notLiveVars

\* the effect cleanup at unmount: clearTimeout(timerId) / clearInterval(intervalId)
LiveCleanupClearsFirstTimer ==
    /\ livePc = "mounted"
    /\ timers' = {timer \in timers : timer.id # 1}
    /\ livePc' = "unmounted"
    /\ selectionEffectPending' = FALSE
    /\ UNCHANGED <<liveKind, timerId, timerCallbacks, liveSensors, ticked,
                   liveSelectedSensorId, panelClosed>>
    /\ UNCHANGED notLiveVars
LiveCleanup ==
    /\ livePc = "mounted"
    /\ timers' = {timer \in timers : timer.id # timerId}
    /\ livePc' = "unmounted"
    /\ selectionEffectPending' = FALSE
    /\ UNCHANGED <<liveKind, timerId, timerCallbacks, liveSensors, ticked,
                   liveSelectedSensorId, panelClosed>>
    /\ UNCHANGED notLiveVars

NextLive ==
    \/ LiveEffect
    \/ TimerCallback
    \/ ClosePanel
    \/ SelectSensor
    \/ SelectionEffect
    \/ LiveCleanup

SpecLive == InitLive /\ [][NextLive]_vars

(***************************************************************************)
(* forEachPosition and isPointOnLand on their own: one call on arguments   *)
(* drawn from nested arrays and from small feature indexes.                *)
(***************************************************************************)
\* the longest array of the nested coordinate inputs
MaxArrayLen == 2
\* the longest feature index handed to isPointOnLand
MaxGeoFeatures == 2

\* the arrays of one to MaxArrayLen elements of a set
ArraysOf(elements) ==
    {Arr(items) : items \in UNION {[1..n -> elements] : n \in 1..MaxArrayLen}}

WalkPositions == {Position(1 * Fine, 2 * Fine), Position(3 * Fine, 4 * Fine)}
\* a list of positions, possibly with a null entry, or empty
WalkLines == {Arr(<< >>)} \cup ArraysOf(WalkPositions \cup {Undef})
\* arrays of lines, possibly with a bare position among them
WalkPolygons == ArraysOf(WalkLines \cup {Position(1 * Fine, 2 * Fine)})
\* properly nested arrays three and four levels deep
WalkDeep ==
    { Arr(<< Arr(<< Arr(<< Position(1 * Fine, 2 * Fine), Position(3 * Fine, 4 * Fine) >>) >>),
             Arr(<< Arr(<< Position(5 * Fine, 6 * Fine) >>) >>) >>),
      Arr(<< Arr(<< Arr(<< Arr(<< Position(1 * Fine, 2 * Fine) >>),
                           Arr(<< Position(3 * Fine, 4 * Fine) >>) >>) >>) >>) }
WalkInputs ==
    {Undef, Num(7), Position(1 * Fine, 2 * Fine)} \cup WalkLines \cup WalkPolygons
        \cup WalkDeep

EastBox == BoxDeg(0, 10, 0, 10)
WestBox == BoxDeg(-30, -20, 0, 10)
\* East: the library's interior is the polygon; Inner: a part of it; West: another
\* polygon; Inverted: a ring wound the other way, whose interior on the sphere is
\* everything outside it; NoGeometry: a feature without geometry
GeoFeatures ==
    { Feature("East", TRUE, PolygonCoordinates(EastBox), {EastBox}),
      Feature("Inner", TRUE, MultiPolygonCoordinates(EastBox), {BoxDeg(2, 4, 2, 4)}),
      Feature("West", TRUE, PolygonCoordinates(WestBox), {WestBox}),
      Feature("Inverted", TRUE, PolygonCoordinates(WestBox),
              {BoxDeg(-19, 180, -90, 90), BoxDeg(-180, -31, -90, 90)}),
      Feature("NoGeometry", FALSE, Undef, {}) }
GeoFeatureLists == UNION {[1..n -> GeoFeatures] : n \in 0..MaxGeoFeatures}
GeoPoints ==
    {[lng |-> x * Fine, lat |-> y * Fine] : x \in {-25, -5, 3, 10, 15}, y \in {3, 20}}

InitWalk ==
    /\ fn = "walk"
    /\ IdleGen
    /\ IdleMap
    /\ IdleCanvas
    /\ IdleAuth
    /\ IdleLive
    /\ geoPc = "call"
    /\ geoCoordinates \in WalkInputs
    /\ geoCalls = << >>
    /\ geoIndex = << >>
    /\ geoPoint = [lng |-> 0, lat |-> 0]
    /\ geoTested = << >>
    /\ geoResult = FALSE

InitOnLand ==
    /\ fn = "onland"
    /\ IdleGen
    /\ IdleMap
    /\ IdleCanvas
    /\ IdleAuth
    /\ IdleLive
    /\ geoPc = "call"
    /\ geoCoordinates = Undef
    /\ geoCalls = << >>
    /\ geoIndex \in {buildFeatureIndex(list) : list \in GeoFeatureLists}
    /\ geoPoint \in GeoPoints
    /\ geoTested = << >>
    /\ geoResult = FALSE

\* forEachPosition(coordinates, callback) with a callback that records its argument
WalkCoordinates ==
    /\ fn = "walk"
    /\ geoPc = "call"
    /\ geoCalls' = forEachPosition(geoCoordinates)
    /\ geoPc' = "done"
    /\ UNCHANGED <<geoCoordinates, geoIndex, geoPoint, geoTested, geoResult>>
    /\ UNCHANGED notGeoVars

\* the loop of isPointOnLand from entry i on, without the bounding-box test
RECURSIVE isPointOnLandLoopNoPrecheck(_, _, _, _, _)
isPointOnLandLoopNoPrecheck(index, lng, lat, i, tested) ==
    IF i > Len(index)
    THEN [result |-> FALSE, tested |-> tested]
    ELSE IF geoContains(index[i].feature, lng, lat)
         THEN [result |-> TRUE, tested |-> Append(tested, i)]
         ELSE isPointOnLandLoopNoPrecheck(index, lng, lat, i + 1, Append(tested, i))

\* the loop of isPointOnLand from entry i on: what it returns, and the entries it
\* has handed to geoContains
RECURSIVE isPointOnLandLoop(_, _, _, _, _)
isPointOnLandLoop(index, lng, lat, i, tested) ==
    IF i > Len(index)
    THEN [result |-> FALSE, tested |-> tested]
    ELSE IF ~pointInBounds(index[i].bounds, lng, lat)
         THEN isPointOnLandLoop(index, lng, lat, i + 1, tested)
         ELSE IF geoContains(index[i].feature, lng, lat)
              THEN [result |-> TRUE, tested |-> Append(tested, i)]
              ELSE isPointOnLandLoop(index, lng, lat, i + 1, Append(tested, i))

\* isPointOnLand(featureIndex, lng, lat)
TestPoint ==
    /\ fn = "onland"
    /\ geoPc = "call"
    /\ LET run == isPointOnLandLoop(geoIndex, geoPoint.lng, geoPoint.lat, 1, << >>)
       IN  /\ geoResult' = run.result
           /\ geoTested' = run.tested
    /\ geoPc' = "done"
    /\ UNCHANGED <<geoCoordinates, geoCalls, geoIndex, geoPoint>>
    /\ UNCHANGED notGeoVars

NextGeo == WalkCoordinates \/ TestPoint

SpecGeo == (InitWalk \/ InitOnLand) /\ [][NextGeo]_vars

(***************************************************************************)
(* Properties of generation                                                *)
(***************************************************************************)
WithoutTimestamp(records) ==
    [i \in 1..Len(records) |-> [records[i] EXCEPT !.updatedAt = 0]]

SecondCallReturned == invocation = 2 /\ pc = "done"

\* C1 as stated: two invocations with identical regions, seed and boundary features
\* return identical record sequences, every field included.
C1_IdenticalRecords ==
    SecondCallReturned => sensors = previous

\* C1, amended: the two sequences have the same ids, the same order and the same
\* field values except updatedAt, which is each call's own reading of the clock; they
\* are identical in every field when both calls read the same instant.
C1_IdenticalExceptTimestamp ==
    SecondCallReturned =>
        /\ WithoutTimestamp(sensors) = WithoutTimestamp(previous)
        /\ \A i \in 1..Len(sensors) : sensors[i].updatedAt = clock
        /\ (\A i \in 1..Len(previous) : previous[i].updatedAt = clock) => sensors = previous

\* a second call that returned a full list at a later instant than the first
C1_Witness ==
    /\ SecondCallReturned
    /\ fn = "land"
    /\ Len(sensors) = targetCount
    /\ sensors # previous

\* C2: every generated record's pm25 lies in the band of its status: good in
\* [8, 15], moderate in [18, 28], poor in [32, 48].
C2_Pm25InStatusBand ==
    \A i \in 1..Len(sensors) :
        /\ sensors[i].status \in {"good", "moderate", "poor"}
        /\ sensors[i].status = "good" => sensors[i].pm25 \in 8..15
        /\ sensors[i].status = "moderate" => sensors[i].pm25 \in 18..28
        /\ sensors[i].status = "poor" => sensors[i].pm25 \in 32..48

\* a returned list holding all three statuses, the poor one at the top of its band
C2_Witness ==
    /\ pc = "done"
    /\ \E i, j, k \in 1..Len(sensors) :
        /\ sensors[i].status = "good"
        /\ sensors[j].status = "moderate"
        /\ sensors[k].status = "poor" /\ sensors[k].pm25 = 48

\* C3 as stated: with land features supplied, every returned record's stored
\* (lng, lat) passes isPointOnLand, unless the record is a fallback ("global") record.
C3_StoredPointOnLand ==
    fn = "land" =>
        \A i \in 1..Len(sensors) :
            \/ sensors[i].id[1] = "global"
            \/ isPointOnLand(featureIndex, sensors[i].lng * 10, sensors[i].lat * 10)

\* the regions or clusters of the running generator
RunRegions == IF fn = "world" THEN Clusters ELSE Regions

\* stored latitude and longitude inside the region's bounds / the cluster's spread
InsideSpread(record, r) ==
    IF fn = "world"
    THEN /\ record.lat >= Clusters[r].lat * 1000 - Clusters[r].spreadLat * 10000
         /\ record.lat <= Clusters[r].lat * 1000 + Clusters[r].spreadLat * 10000
         /\ record.lng >= Clusters[r].lng * 1000 - Clusters[r].spreadLng * 10000
         /\ record.lng <= Clusters[r].lng * 1000 + Clusters[r].spreadLng * 10000
    ELSE /\ record.lat >= Regions[r].bounds.minLat * 10000
         /\ record.lat <= Regions[r].bounds.maxLat * 10000
         /\ record.lng >= Regions[r].bounds.minLng * 10000
         /\ record.lng <= Regions[r].bounds.maxLng * 10000

NoBoundaryData ==
    fn = "world" \/ ~countryFeatures.isArray \/ Len(countryFeatures.items) = 0

\* C4 as stated: without boundary data a region with count n yields exactly n
\* records, with ids <key>-1 .. <key>-n in that order, each inside the region's spread.
C4_UnconstrainedFullCount ==
    (pc = "done" /\ NoBoundaryData) =>
        /\ Len(sensors) = SumCounts(RunRegions, 1)
        /\ \A r \in 1..Len(RunRegions) : \A j \in 1..RunRegions[r].count :
             LET i == SumCounts(SubSeq(RunRegions, 1, r - 1), 1) + j
             IN  /\ i <= Len(sensors)
                 /\ sensors[i].id = <<RunRegions[r].key, j>>
                 /\ InsideSpread(sensors[i], r)

Terminated == pc \in {"done", "threw"}

\* C5: generation always terminates; a region's placement loop makes at most
\* count * 900 attempts, and once they are used up the region is left with fewer
\* than count sensors and the run goes on to its end.
C5_BoundedAttemptsAndTermination ==
    /\ [](pc = "region" => attempts <= Regions[regionIdx].count * 900)
    /\ <>Terminated

\* the last region's attempts are used up with the region short of its count
C5_Witness ==
    /\ pc = "region"
    /\ regionIdx = Len(Regions)
    /\ attempts = Regions[regionIdx].count * 900
    /\ count < Regions[regionIdx].count

\* C6: the fallback phase samples until the list holds exactly the sum of the region
\* counts or targetCount * 1600 fallback attempts are used; the list never holds
\* more than that sum.
C6_FallbackFillsToTarget ==
    fn = "land" =>
        /\ Len(sensors) <= SumCounts(Regions, 1)
        /\ fallbackIndex <= SumCounts(Regions, 1) * 1600
        /\ pc = "done" =>
             \/ Len(sensors) = SumCounts(Regions, 1)
             \/ fallbackIndex = SumCounts(Regions, 1) * 1600

\* a run whose regions fell short and whose fallback phase filled the list
C6_Witness ==
    /\ pc = "done"
    /\ fallbackIndex > 0
    /\ Len(sensors) = SumCounts(Regions, 1)
    /\ \E i, j \in 1..Len(sensors) :
        sensors[i].id[1] = "global" /\ sensors[j].id[1] # "global"

\* C7 as stated: generateLandSensors raises no error, whatever the feature list.
C7_NeverThrows ==
    pc # "threw"


\* C16: within one run no two records share an id; a region's records carry the
\* region key with the sequence 1, 2, ... in order of placement, and a fallback record
\* carries "global" with its position in the list.
C16_UniqueIds ==
    /\ \A i, j \in 1..Len(sensors) : i # j => sensors[i].id # sensors[j].id
    /\ \A i \in 1..Len(sensors) :
         IF sensors[i].id[1] = "global"
         THEN fn = "land" /\ sensors[i].id[2] = i
         ELSE sensors[i].id[2] =
                  Cardinality({j \in 1..i : sensors[j].id[1] = sensors[i].id[1]})

\* a returned list with a second record of some region and a later fallback record
C16_Witness ==
    /\ pc = "done"
    /\ \E i, j \in 1..Len(sensors) :
        /\ i < j
        /\ sensors[i].id[1] # "global" /\ sensors[i].id[2] = 2
        /\ sensors[j].id = <<"global", j>>

\* C17: every record has latitude in [-90, 90] and longitude in [-180, 180]; fallback
\* records and buildWorldSensorPoints records lie in latitude [-58, 82] and longitude
\* [-176, 176].  The bounds every region and the fallback box sample from lie in range.
C17_CoordinatesInRange ==
    /\ \A i \in 1..Len(sensors) :
         /\ sensors[i].lat \in (-90 * 10000)..(90 * 10000)
         /\ sensors[i].lng \in (-180 * 10000)..(180 * 10000)
         /\ (fn = "world" \/ sensors[i].id[1] = "global") =>
              /\ sensors[i].lat \in (-58 * 10000)..(82 * 10000)
              /\ sensors[i].lng \in (-176 * 10000)..(176 * 10000)
    /\ \A r \in 1..Len(REGIONS) :
         /\ -90 <= REGIONS[r].bounds.minLat /\ REGIONS[r].bounds.maxLat <= 90
         /\ -180 <= REGIONS[r].bounds.minLng /\ REGIONS[r].bounds.maxLng <= 180
    /\ -58 <= FALLBACK_BOUNDS.minLat /\ FALLBACK_BOUNDS.maxLat <= 82
    /\ -176 <= FALLBACK_BOUNDS.minLng /\ FALLBACK_BOUNDS.maxLng <= 176

\* a land run that returned a region record followed by a fallback record
C17_Witness ==
    /\ pc = "done"
    /\ fn = "land"
    /\ Len(sensors) >= 2
    /\ sensors[1].id[1] # "global"
    /\ sensors[Len(sensors)].id[1] = "global"


\* a step of a placement loop: one more attempt counted
IsAttempt == fn = "land" /\ (attempts' = attempts + 1 \/ fallbackIndex' = fallbackIndex + 1)

\* the box the running loop samples from
SampledBounds == IF pc = "region" THEN Regions[regionIdx].bounds ELSE FALLBACK_BOUNDS

\* C20: all draws of a run come from one stream, in a fixed order: an attempt draws
\* lat, then lng; a rejected candidate draws nothing more; an accepted one then draws
\* quality roll, pm25, temperature, humidity and intensity, seven draws in all.  No
\* other step of the run advances the stream.
C20_DrawOrder ==
    [][fn = "land" =>
         LET s1 == LcgNext(random)
             s2 == LcgNext(s1)
             s3 == LcgNext(s2)
             s4 == LcgNext(s3)
             s5 == LcgNext(s4)
             s6 == LcgNext(s5)
             s7 == LcgNext(s6)
             b == SampledBounds
             lat == b.minLat * 100000 + MulShift(s1, (b.maxLat - b.minLat) * 100000, 0)
             lng == b.minLng * 100000 + MulShift(s2, (b.maxLng - b.minLng) * 100000, 0)
             roll == MulShift(s3, 100, 0)
             record == sensors'[Len(sensors')]
         IN  IF ~IsAttempt
             THEN random' = random \/ (pc = "call" /\ random' = createSeededRandom(seed))
             ELSE IF Len(sensors') = Len(sensors)
             THEN random' = s2
             ELSE /\ random' = s7
                  /\ Len(sensors') = Len(sensors) + 1
                  /\ record.lat = (lat + 5) \div 10
                  /\ record.lng = (lng + 5) \div 10
                  /\ record.status = (IF roll < 63 THEN "good"
                                      ELSE IF roll < 88 THEN "moderate" ELSE "poor")
                  /\ record.pm25 = (IF roll < 63 THEN 8 + MulShift(s4, 7, 1)
                                    ELSE IF roll < 88 THEN 18 + MulShift(s4, 10, 1)
                                    ELSE 32 + MulShift(s4, 16, 1))
                  /\ record.temperature = 160 + MulShift(s5, 160, 1)
                  /\ record.humidity = 30 + MulShift(s6, 42, 1)
                  /\ record.intensity = 75 + MulShift(s7, 90, 1)]_vars

\* a region loop that has rejected candidates and then accepted one
C20_Witness ==
    /\ fn = "land"
    /\ pc = "region"
    /\ count = 1
    /\ attempts >= 3
    /\ Len(sensors) >= 1


\* C23: every record produced by generateLandSensors or buildWorldSensorPoints carries
\* the status the live classifier gives its pm25: status = getStatusFromPm25(pm25).
C23_StatusAgreesWithClassifier ==
    \A i \in 1..Len(sensors) : sensors[i].status = getStatusFromPm25(sensors[i].pm25)

\* a returned list of the world generator holding a good record at the top of its band
\* and a record that is not good
C23_Witness ==
    /\ fn = "world"
    /\ pc = "done"
    /\ \E i, j \in 1..Len(sensors) :
        /\ sensors[i].status = "good" /\ sensors[i].pm25 > 10
        /\ sensors[j].status # "good"

C9_StatusFollowsPm25 ==
    ticked =>
        \A i \in 1..Len(liveSensors) :
            /\ liveSensors[i].pm25 <= 15 => liveSensors[i].status = "good"
            /\ (15 < liveSensors[i].pm25 /\ liveSensors[i].pm25 <= 30)
                  => liveSensors[i].status = "moderate"
            /\ liveSensors[i].pm25 > 30 => liveSensors[i].status = "poor"

\* a record that started good and, ticked across both thresholds, is now poor
C9_Witness ==
    /\ ticked
    /\ \E i \in 1..Len(liveSensors) :
        /\ liveSensors[i].id[1] = "a"
        /\ liveSensors[i].pm25 = 31
        /\ liveSensors[i].status = "poor"

(***************************************************************************)
(* Properties of the seeded generator                                      *)
(***************************************************************************)
\* a 32-bit value as four bytes, least significant first
BytesOfSeed(n) ==
    << n % 256, (n \div 256) % 256, (n \div 65536) % 256, (n \div 16777216) % 256 >>
BytesOfState(s) ==
    << s.lo % 256, (s.lo \div 256) % 256, s.hi % 256, (s.hi \div 256) % 256 >>

\* (b * 1664525 + 1013904223) mod 2^32 by long multiplication on bytes
ReferenceStep(b) ==
    LET a == BytesOfSeed(1664525)
        c == BytesOfSeed(1013904223)
        p1 == b[1] * a[1] + c[1]
        p2 == b[2] * a[1] + b[1] * a[2] + c[2] + (p1 \div 256)
        p3 == b[3] * a[1] + b[2] * a[2] + b[1] * a[3] + c[3] + (p2 \div 256)
        p4 == b[4] * a[1] + b[3] * a[2] + b[2] * a[3] + b[1] * a[4] + c[4] + (p3 \div 256)
    IN  << p1 % 256, p2 % 256, p3 % 256, p4 % 256 >>

\* C10: the generator starts from seed mod 2^32 and every call replaces the state by
\* (state * 1664525 + 1013904223) mod 2^32; the state is an integer in [0, 2^32) and
\* the value returned, state / 2^32, lies in [0, 1).
C10_LinearCongruential ==
    /\ [](fn = "rng" =>
            /\ random.hi \in 0..(2 ^ 16 - 1)
            /\ random.lo \in 0..(2 ^ 16 - 1)
            /\ rngCalls = 0 => BytesOfState(random) = BytesOfSeed(seed)
            /\ MulShift(random, 1, 0) = 0)
    /\ [][fn = "rng" => BytesOfState(random') = ReferenceStep(BytesOfState(random))]_vars

\* a generator seeded with a negative number, after ten calls
C10_Witness ==
    /\ fn = "rng"
    /\ seed = -1
    /\ rngCalls = 10

(***************************************************************************)
(* Properties of the city map                                              *)
(***************************************************************************)
MapMounted == fn = "map" /\ mapPc \in {"render", "idle"}

\* C11 as stated: the viewport set by focusing a sensor never exceeds the base
\* viewport: minLat >= base.minLat, maxLat <= base.maxLat, minLng >= base.minLng and
\* maxLng <= base.maxLng, for base viewports produced by buildViewportFromSensors.
C11_FocusWithinBase ==
    MapMounted =>
        /\ viewport.minLat >= baseViewport.minLat
        /\ viewport.maxLat <= baseViewport.maxLat
        /\ viewport.minLng >= baseViewport.minLng
        /\ viewport.maxLng <= baseViewport.maxLng

\* C12: for a non-empty list the base viewport encloses every sensor and lies, on each
\* side, 45% of the span beyond the outermost sensor, the span being 0.02 when all
\* sensors share the latitude (or the longitude).
C12_ViewportEnclosesWithPadding ==
    (MapMounted /\ Len(mapSensors) > 0) =>
        \E lo, hi, west, east \in 1..Len(mapSensors) :
            LET south == mapSensors[lo].lat
                north == mapSensors[hi].lat
                left == mapSensors[west].lng
                right == mapSensors[east].lng
                latSpan == IF north = south THEN 20000 ELSE north - south
                lngSpan == IF right = left THEN 20000 ELSE right - left
            IN  /\ \A i \in 1..Len(mapSensors) :
                     /\ south <= mapSensors[i].lat /\ mapSensors[i].lat <= north
                     /\ left <= mapSensors[i].lng /\ mapSensors[i].lng <= right
                     /\ baseViewport.minLat < mapSensors[i].lat
                     /\ mapSensors[i].lat < baseViewport.maxLat
                     /\ baseViewport.minLng < mapSensors[i].lng
                     /\ mapSensors[i].lng < baseViewport.maxLng
                /\ 100 * (south - baseViewport.minLat) = 45 * latSpan
                /\ 100 * (baseViewport.maxLat - north) = 45 * latSpan
                /\ 100 * (left - baseViewport.minLng) = 45 * lngSpan
                /\ 100 * (baseViewport.maxLng - right) = 45 * lngSpan

\* two sensors on one latitude and different longitudes, mounted
C12_Witness ==
    /\ MapMounted
    /\ Len(mapSensors) = 2
    /\ mapSensors[1].lat = mapSensors[2].lat
    /\ mapSensors[1].lng # mapSensors[2].lng

\* C13: the base viewport is never degenerate: for the empty list it is the fixed
\* default viewport, and for every list both of its spans are strictly positive, so
\* projecting onto it never takes the zero-span branch.
C13_BaseViewportNotDegenerate ==
    MapMounted =>
        /\ baseViewport.maxLat - baseViewport.minLat > 0
        /\ baseViewport.maxLng - baseViewport.minLng > 0
        /\ Len(mapSensors) = 0 =>
             baseViewport = [minLat |-> 59270000, maxLat |-> 59360000,
                             minLng |-> 18000000, maxLng |-> 18130000]

\* a single sensor, mounted and drawn on its base viewport
C13_Witness ==
    /\ MapMounted
    /\ mapPc = "idle"
    /\ Len(mapSensors) = 1
    /\ viewport = baseViewport
    /\ ~markers[1].isNull

Sign(n) == IF n > 0 THEN 1 ELSE IF n < 0 THEN -1 ELSE 0

\* n / d < 0 for a non-zero d
Negative(n, d) == Sign(n) * Sign(d) < 0

\* C14: a sensor gets no marker exactly when the viewport has a zero span or its
\* x or y is below -2 or above 102; otherwise the marker is at
\* x = (lng - minLng) / lngSpan * 100, y = (maxLat - lat) / latSpan * 100, unclipped.
C14_MarkerDroppedBeyondTolerance ==
    mapPc = "idle" =>
        \A i \in 1..Len(mapSensors) :
            LET lngSpan == viewport.maxLng - viewport.minLng
                latSpan == viewport.maxLat - viewport.minLat
                dx == mapSensors[i].lng - viewport.minLng
                dy == viewport.maxLat - mapSensors[i].lat
                offScreen ==
                    \/ Negative(100 * dx + 2 * lngSpan, lngSpan)
                    \/ Negative(102 * lngSpan - 100 * dx, lngSpan)
                    \/ Negative(100 * dy + 2 * latSpan, latSpan)
                    \/ Negative(102 * latSpan - 100 * dy, latSpan)
            IN  /\ markers[i].isNull <=> (lngSpan = 0 \/ latSpan = 0 \/ offScreen)
                /\ ~markers[i].isNull =>
                     /\ markers[i].x = [num |-> 100 * dx, den |-> lngSpan]
                     /\ markers[i].y = [num |-> 100 * dy, den |-> latSpan]

\* a sensor exactly 2% left of the viewport is drawn, at x = -2
C14_Witness ==
    /\ fn = "project"
    /\ mapPc = "idle"
    /\ viewport.maxLng - viewport.minLng = 100000
    /\ mapSensors[1].lng - viewport.minLng = -2000
    /\ ~markers[1].isNull
    /\ markers[1].x.num = -200000

\* the sensor the map has selected
SelectedSensors == {i \in 1..Len(mapSensors) : mapSensors[i].id = selectedSensorId}

\* C29: after handleSelectSensor(sensor) the viewport spans exactly 0.05 degree of
\* latitude by 0.08 degree of longitude and projectMarker(sensor, viewport) is not null,
\* so the selected sensor's marker is drawn; "Reset map view" sets the viewport back
\* to the base viewport.
C29_FocusShowsSelectedSensor ==
    fn = "map" =>
        /\ mapEvent = "select" =>
              /\ viewport.maxLat - viewport.minLat = FocusLatSpan
              /\ viewport.maxLng - viewport.minLng = FocusLngSpan
              /\ SelectedSensors # {}
              /\ \A i \in SelectedSensors :
                    /\ ~projectMarker(mapSensors[i], viewport).isNull
                    /\ mapPc = "idle" => ~markers[i].isNull
        /\ mapEvent = "reset" => viewport = baseViewport

\* a sensor selected on a base viewport narrower than the focus viewport, its marker
\* drawn, with another sensor's marker dropped
C29_Witness ==
    /\ fn = "map"
    /\ mapEvent = "select"
    /\ mapPc = "idle"
    /\ baseViewport.maxLng - baseViewport.minLng > FocusLngSpan
    /\ \E i, j \in 1..Len(mapSensors) :
        /\ mapSensors[i].id = selectedSensorId
        /\ ~markers[i].isNull
        /\ markers[j].isNull

\* the viewport is back on the base viewport after a sensor had been selected
ResetWitness ==
    /\ fn = "map"
    /\ mapEvent = "reset"
    /\ selectedSensorId # "none"
    /\ viewport = baseViewport
    /\ mapPc = "idle"

(***************************************************************************)
(* Properties of the simple projection                                     *)
(***************************************************************************)
\* C15: simple-mode projection maps (lat 90, lng -180) to (0, 0) and (lat -90, lng 180)
\* to (WIDTH, HEIGHT), and every lat in [-90, 90], lng in [-180, 180] to a point with
\* 0 <= x <= WIDTH and 0 <= y <= HEIGHT.
C15_CornersAndRange ==
    canvasPc = "done" =>
        /\ (canvasLat = 9000 /\ canvasLng = -18000) => canvasPosition = [x |-> 0, y |-> 0]
        /\ (canvasLat = -9000 /\ canvasLng = 18000)
              => canvasPosition = [x |-> 144000, y |-> 72000]
        /\ (canvasLat \in -9000..9000 /\ canvasLng \in -18000..18000) =>
              /\ canvasPosition.x \in 0..144000
              /\ canvasPosition.y \in 0..72000
        /\ 360 * canvasPosition.x = (canvasLng + 18000) * 1440
        /\ 180 * canvasPosition.y = (9000 - canvasLat) * 720

\* the south-east corner has been projected
C15_Witness ==
    /\ canvasPc = "done"
    /\ canvasLat = -9000
    /\ canvasLng = 18000
    /\ canvasPosition.x = 144000

(***************************************************************************)
(* Properties of the mock sign-in                                          *)
(***************************************************************************)
\* C18 as stated: for every non-empty email string and non-empty password string,
\* login(email, password) returns true and the user becomes authenticated.
C18_NonEmptyCredentialsAccepted ==
    [][(loginCall' # loginCall /\ Len(loginCall'.email) > 0 /\ Len(loginCall'.password) > 0)
          => (loginCall'.returned /\ isAuthenticated')]_vars

\* the pages behind RequireAuth
ProtectedContent == {"Dashboard", "Room"}
ProtectedPaths == {"/dashboard"} \cup RoomPaths

\* C24: a protected page (the dashboard, a room) is never on the page for a user who is
\* not authenticated: whatever a render puts on the page for a signed-out user is not a
\* protected page.
C24_ProtectedNeverRenderedSignedOut ==
    (fn = "auth" /\ appPc # "render" /\ content \in ProtectedContent) => isAuthenticated

\* a signed-out user on /dashboard, for whom the render has put nothing on the page
C24_Witness ==
    /\ fn = "auth"
    /\ appPc = "effects"
    /\ pathname = "/dashboard"
    /\ ~isAuthenticated
    /\ content = "none"

\* the application has come to rest: no render or effect is pending
Settled == appPc \in {"idle", "crashed"}

\* C25: whenever the path is /dashboard or /rooms/<id> while the user is not
\* authenticated, the application next sets the path to "/" and replaces the current
\* history entry instead of pushing one; /signin is always replaced by "/".  Hence the
\* application never comes to rest on such a path.
C25_RedirectedWithReplace ==
    /\ [][(appPc = "effects"
             /\ (pathname = "/signin" \/ (pathname \in ProtectedPaths /\ ~isAuthenticated)))
          => (/\ pathname' = "/"
              /\ historyIndex' = historyIndex
              /\ history' = [history EXCEPT ![historyIndex] = "/"])]_vars
    /\ [](fn = "auth" /\ Settled =>
            /\ pathname # "/signin"
            /\ ~(pathname \in ProtectedPaths /\ ~isAuthenticated))

\* C25 for every path whose room id can be decoded
RedirectedUnlessMalformed ==
    /\ [][(appPc = "effects"
             /\ (pathname = "/signin" \/ (pathname \in ProtectedPaths /\ ~isAuthenticated)))
          => (/\ pathname' = "/"
              /\ historyIndex' = historyIndex
              /\ history' = [history EXCEPT ![historyIndex] = "/"])]_vars
    /\ [](fn = "auth" /\ Settled /\ ~getRoomRouteThrows(pathname) =>
            /\ pathname # "/signin"
            /\ ~(pathname \in ProtectedPaths /\ ~isAuthenticated))

\* a signed-out user sent from a protected path to "/", the entry replaced in a history
\* of two entries
RedirectedWitness ==
    /\ fn = "auth"
    /\ appPc = "render"
    /\ ~isAuthenticated
    /\ guardDeps = "false"
    /\ pathname = "/"
    /\ history = << "/", "/" >>
    /\ historyIndex = 2

\* a document load: the provider and App are constructed anew
LoadStep == appPc' = "render" /\ pathDeps' = "unset"

\* C26: after any sequence of logins and logouts isAuthenticated is true exactly when
\* the storage holds airiq_auth = "1", and a reload of the page restores the same
\* isAuthenticated.
C26_StateMatchesStorage ==
    /\ [](fn = "auth" => (isAuthenticated <=> authStorage))
    /\ [][LoadStep => (isAuthenticated' <=> isAuthenticated)]_vars

\* a page just reloaded after a successful login, still authenticated
C26_Witness ==
    /\ fn = "auth"
    /\ appPc = "render"
    /\ pathDeps = "unset"
    /\ loginCall.returned
    /\ isAuthenticated
    /\ authStorage

RejectedMessage == "Enter a valid email and password to continue."

\* a submit that login rejected (a repeated rejected submit that changes nothing is a
\* stuttering step)
RejectedSubmitStep ==
    /\ errorMessage' = RejectedMessage
    /\ errorMessage # RejectedMessage \/ loginCall' # loginCall

\* C27: a rejected sign-in changes nothing but the error message: isAuthenticated and
\* the storage are unchanged, the modal stays open, onSuccess is not called (the path
\* and the history are unchanged) and postLoginPath is kept.
C27_RejectedSignInOnlySetsError ==
    [][RejectedSubmitStep =>
          /\ ~loginCall'.returned
          /\ UNCHANGED <<isAuthenticated, authStorage, email, password, pathname, history,
                         historyIndex, postLoginPath, isSignInOpen, content, appPc>>
          /\ isSignInOpen]_vars

\* a rejected sign-in in the modal opened by "Go to Dashboard"
C27_Witness ==
    /\ fn = "auth"
    /\ isSignInOpen
    /\ errorMessage = RejectedMessage
    /\ loginCall.made /\ ~loginCall.returned
    /\ Len(loginCall.email) > 0
    /\ postLoginPath = "/dashboard"
    /\ ~isAuthenticated
    /\ pathname = "/"

\* C28: whenever the modal is closed postLoginPath is null; a successful sign-in
\* navigates to /dashboard when the modal was opened by "Go to Dashboard" and leaves the
\* path unchanged when it was opened by "Sign in", also after an earlier cancelled
\* "Go to Dashboard".
C28_PostLoginPathScopedToModal ==
    /\ [](fn = "auth" /\ ~isSignInOpen => postLoginPath = "null")
    /\ [][(~isAuthenticated /\ isAuthenticated') =>
             /\ isSignInOpen /\ ~isSignInOpen'
             /\ IF openedBy = "Go to Dashboard"
                THEN pathname' = "/dashboard"
                ELSE pathname' = pathname /\ history' = history]_vars

\* signed in through "Sign in" after a cancelled "Go to Dashboard": still on "/"
C28_Witness ==
    /\ fn = "auth"
    /\ dashboardCancelled
    /\ openedBy = "Sign in"
    /\ isAuthenticated
    /\ loginCall.returned
    /\ ~isSignInOpen
    /\ appPc = "render"
    /\ pathname = "/"

(***************************************************************************)
(* Properties of the tick timers                                           *)
(***************************************************************************)
\* C19: once the effect cleanup has run no timer is pending, no timer callback runs
\* and the sensors are never ticked again; at every moment at most one timer is
\* pending.
C19_CleanupStopsTicks ==
    /\ [](fn = "live" => Cardinality(timers) <= 1)
    /\ [](livePc = "unmounted" => timers = {})
    /\ [][livePc = "unmounted" =>
             (timerCallbacks' = timerCallbacks /\ liveSensors' = liveSensors)]_vars

\* Landing unmounted after two ticks of its timeout chain
C19_Witness ==
    /\ livePc = "unmounted"
    /\ liveKind = "timeout"
    /\ timerCallbacks = 2
    /\ timerId = 3

(***************************************************************************)
(* Properties of the land test                                             *)
(***************************************************************************)
\* every box the library reports as inside a feature lies within the bounds the index
\* computed for that feature
GeometriesWithinBounds(index) ==
    \A i \in 1..Len(index) :
        \A box \in index[i].feature.land :
            /\ box.minLng >= index[i].bounds.minLng
            /\ box.maxLng <= index[i].bounds.maxLng
            /\ box.minLat >= index[i].bounds.minLat
            /\ box.maxLat <= index[i].bounds.maxLat

\* the unoptimized test: some feature contains the point
SomeFeatureContains(index, point) ==
    \E i \in 1..Len(index) :
        \E box \in index[i].feature.land :
            /\ box.minLng <= point.lng /\ point.lng <= box.maxLng
            /\ box.minLat <= point.lat /\ point.lat <= box.maxLat

\* C21: isPointOnLand hands a feature to geoContains only when the point lies inside
\* the feature's bounding box, and when every geometry lies within its computed bounds
\* its result is that of the unoptimized test "some feature contains the point"; the
\* result of the loop is also the one the generator's land test is modelled with.
C21_PrecheckSkipsAndAgrees ==
    (fn = "onland" /\ geoPc = "done") =>
        /\ \A k \in 1..Len(geoTested) :
              /\ geoIndex[geoTested[k]].bounds.minLng <= geoPoint.lng
              /\ geoPoint.lng <= geoIndex[geoTested[k]].bounds.maxLng
              /\ geoIndex[geoTested[k]].bounds.minLat <= geoPoint.lat
              /\ geoPoint.lat <= geoIndex[geoTested[k]].bounds.maxLat
        /\ GeometriesWithinBounds(geoIndex) =>
              (geoResult <=> SomeFeatureContains(geoIndex, geoPoint))
        /\ geoResult <=> isPointOnLand(geoIndex, geoPoint.lng, geoPoint.lat)

\* the first feature is skipped on its bounding box and the second contains the point
C21_Witness ==
    /\ fn = "onland"
    /\ geoPc = "done"
    /\ Len(geoIndex) = 2
    /\ GeometriesWithinBounds(geoIndex)
    /\ geoIndex[1].feature.land # {}
    /\ geoTested = << 2 >>
    /\ geoResult

\* a numeric [lng, lat] pair
IsPosition(value) ==
    /\ value.t = "arr"
    /\ Len(value.items) >= 2
    /\ value.items[1].t = "num"
    /\ value.items[2].t = "num"

\* the numeric pairs found anywhere in a nested array, in array order
RECURSIVE PositionsIn(_)
PositionsIn(value) ==
    IF IsPosition(value)
    THEN << value >>
    ELSE IF value.t = "arr"
         THEN Concat([i \in 1..Len(value.items) |-> PositionsIn(value.items[i])], 1)
         ELSE << >>

\* every position sits at the same depth, below arrays only
RECURSIVE UniformDepth(_, _)
UniformDepth(value, depth) ==
    IF depth = 0
    THEN IsPosition(value)
    ELSE /\ value.t = "arr"
         /\ \A i \in 1..Len(value.items) : UniformDepth(value.items[i], depth - 1)

\* C22: for any nesting of the coordinates, forEachPosition invokes the callback exactly
\* once for each numeric [lng, lat] pair, in array order, and on nothing else.
C22_CallbackOncePerPosition ==
    (fn = "walk" /\ geoPc = "done") => geoCalls = PositionsIn(geoCoordinates)

\* On arrays whose positions all sit at one depth of at least one (line strings,
\* polygons, multi-polygons and deeper), the walk visits exactly the positions, in order.
UniformNestingWalked ==
    (fn = "walk" /\ geoPc = "done"
        /\ \E depth \in 1..4 : UniformDepth(geoCoordinates, depth))
    => geoCalls = PositionsIn(geoCoordinates)

(***************************************************************************)
(* Properties of the landing page's selection                              *)
(***************************************************************************)
\* C30: on Landing a null selection is never stable while sensors exist: when the
\* selection effect runs with selectedSensorId null and a non-empty list (at mount, or
\* after the panel's Close called onSelectSensor(null)), it sets the selection to the
\* first sensor's id, so Landing never rests on a null selection; a tick never changes
\* the selected id.
C30_NullSelectionReplacedByFirst ==
    /\ [](fn = "live" /\ liveKind = "timeout" /\ livePc = "mounted"
            /\ ~selectionEffectPending /\ Len(liveSensors) > 0
          => liveSelectedSensorId # << >>)
    /\ [][(liveKind = "timeout" /\ livePc' = "mounted" /\ liveSelectedSensorId = << >>
             /\ Len(liveSensors) > 0
             /\ (livePc = "mounting" \/ (selectionEffectPending /\ ~selectionEffectPending')))
          => liveSelectedSensorId' = liveSensors[1].id]_vars
    /\ [][timerCallbacks' # timerCallbacks
          => liveSelectedSensorId' = liveSelectedSensorId]_vars

\* Landing with two sensors after a tick: the panel has been closed and the effect
\* has selected the first sensor again
C30_Witness ==
    /\ fn = "live"
    /\ liveKind = "timeout"
    /\ livePc = "mounted"
    /\ Len(liveSensors) = 2
    /\ panelClosed
    /\ ticked
    /\ ~selectionEffectPending
    /\ liveSelectedSensorId = liveSensors[1].id

====
